---- MODULE Spec2Model ----
(***************************************************************************)
(* A model of the Lanfinitas public demo package: the three stub engines   *)
(* (FakePatternGenerator, FakeFabricSimulator, FakeLayoutOptimizer), the   *)
(* mock API classes that wrap them, the demo script's main(), and the      *)
(* utility functions of the type modules (shoelace area, bounding-box      *)
(* intersection / IoU, measurement unit conversion), and the construction, *)
(* validation and serialization of the type classes (Color, CADFile,       *)
(* Pattern2D, LayoutResult, PatternPiece, ExportOptions,                   *)
(* FabricProperties).                                                      *)
(*                                                                         *)
(* Python values are modelled as follows.  A dict is a function from       *)
(* string keys to values (a record); None is the record NoneVal; a list is *)
(* a sequence.  A call that may raise returns [ok |-> TRUE, val |-> v] or  *)
(* [ok |-> FALSE, exc |-> <exception class>].  random.* and time.time()    *)
(* are nondeterministic inputs drawn by the calling action.                *)
(***************************************************************************)
EXTENDS Integers, Sequences, FiniteSets, TLC

VARIABLES
    generator,   \* the FakePatternGenerator object
    simulator,   \* the FakeFabricSimulator object
    optimizer,   \* the FakeLayoutOptimizer object
    genOut,      \* log of direct FakePatternGenerator.generate calls
    pc,          \* position of demo.main()
    pattern,     \* main()'s local `pattern`
    mesh,        \* main()'s local `mesh`
    events,      \* mock API calls made by the demo, in order
    out,         \* section headers / error reports printed by the demo
    responses,   \* envelopes returned by mock API methods to a client
    raised,      \* exceptions that reached a client of the mock API
    tasks,       \* concurrent optimize_layout tasks
    nextObj,     \* allocation counter (object identity of result dicts)
    histResp,    \* envelope of a get_optimization_history call made last
    outline,     \* a PatternPiece's outline
    areaOut,     \* results of PatternPiece.get_area
    boxA,        \* a BoundingBox2D (self)
    boxB,        \* a BoundingBox2D (other)
    boxOut,      \* results of intersects / intersection / iou
    meas,        \* a Measurement
    measOut,     \* results of Measurement.convert_to
    subject,     \* the input of a type-module call: arguments, or the object
    calls        \* log of type-module calls (constructors, validate) made

vars == <<generator, simulator, optimizer, genOut, pc, pattern, mesh, events,
          out, responses, raised, tasks, nextObj, histResp, outline, areaOut,
          boxA, boxB, boxOut, meas, measOut, subject, calls>>

engineVars == <<generator, simulator, optimizer>>
demoVars   == <<pc, pattern, mesh, events, out>>
apiVars    == <<responses, raised>>
concVars   == <<tasks, nextObj, histResp>>
areaVars   == <<outline, areaOut>>
boxVars    == <<boxA, boxB, boxOut>>
measVars   == <<meas, measOut>>
typeVars   == <<subject, calls>>

-----------------------------------------------------------------------------
(* Bounds of the model *)

MaxGenCalls  == 2   \* direct generate() calls in one run
MaxElapsedMs == 1   \* largest value int((time.time() - start_time) * 1000) takes
MaxApiCalls  == 2   \* mock API calls a client makes in one run
NumTasks     == 2   \* concurrent optimize_layout tasks
AreaCoord    == 1   \* outline points lie on the grid 0..AreaCoord x 0..AreaCoord
MaxOutline   == 4   \* longest outline
MaxShift     == 1   \* largest translation offset per axis
MaxCoord     == 2   \* box corners lie on the grid 0..MaxCoord x 0..MaxCoord
MantissaBits == 9   \* precision of the modelled binary floating point
MaxValue     == 3   \* measurements are drawn from 1..MaxValue
MaxConversions == 2 \* length of a chain of convert_to calls
MaxHashes    == 1   \* leading '#' characters of a hex color string
MaxHexLen    == 8   \* characters of a hex color string after the '#'s
MaxByte      == 256 \* from_rgb components are drawn from -1..MaxByte
MaxPathLen   == 4   \* characters of a CADFile's filepath
MaxPieces    == 2   \* pieces of a Pattern2D
MaxSeams     == 1   \* seams of a Pattern2D
UtilSteps    == 10  \* utilization rates are drawn from k / UtilSteps
MaxScale     == 1   \* ExportOptions scales are NaN or drawn from -1..MaxScale
MaxPrecision == 1   \* ExportOptions precisions are drawn from -1..MaxPrecision
MaxWidth     == 1   \* fabric widths are NaN or drawn from -1..MaxWidth
MaxCost      == 1   \* costs per meter are drawn from -1..MaxCost

-----------------------------------------------------------------------------
(* Python values *)

NoneVal == [py_none |-> TRUE]
IsNone(v) == "py_none" \in DOMAIN v
EmptyDict == [k \in {} |-> 0]

\* dict.get(key, default)
DictGet(d, key, default) == IF key \in DOMAIN d THEN d[key] ELSE default

Ok(v) == [ok |-> TRUE, val |-> v]
Raise(e) == [ok |-> FALSE, exc |-> e]

Pt(x, y) == [x |-> x, y |-> y]

DemoVersion == "1.0.0-demo"

-----------------------------------------------------------------------------
(* FakePatternGenerator *)

RandLo == 1000
RandHi == 9999
\* samples of random.randint(1000, 9999): both ends and interior values
RandIds == {RandLo, RandLo + 1, RandHi}

\* f"pattern_{n}"
PatternId(n) == <<"pattern_", n>>

GeneratorInit == [last_generation_time |-> 0, metrics |-> EmptyDict]

PanelContour == <<Pt(0, 0), Pt(50, 0), Pt(50, 70), Pt(0, 70)>>

FrontPanel ==
    [id |-> "front_panel", type |-> "front", contour |-> PanelContour,
     seams |-> << [id |-> "side_seam", type |-> "plain",
                   points |-> << <<50, 0>>, <<50, 70>> >>] >>,
     notches |-> << >>]

BackPanel ==
    [id |-> "back_panel", type |-> "back", contour |-> PanelContour,
     seams |-> << [id |-> "side_seam", type |-> "plain",
                   points |-> << <<0, 0>>, <<0, 70>> >>] >>,
     notches |-> << >>]

PatternMetadata ==
    [version |-> DemoVersion, generated_by |-> "FakePatternGenerator",
     note |-> "DEMO ONLY - Not real pattern data"]

\* A generator whose pieces depend on the design: one piece per mesh.
GeneratedPiecesPerMesh(design) ==
    IF "meshes" \in DOMAIN design
    THEN [i \in 1..Len(design.meshes) |->
            [FrontPanel EXCEPT !.id = design.meshes[i].id]]
    ELSE <<FrontPanel, BackPanel>>

\* the "pieces" list built by generate(); the design is not read
GeneratedPieces(design) == <<FrontPanel, BackPanel>>

\* FakePatternGenerator.generate(design, params); n is the random.randint
\* draw and elapsed the measured time.  design.get raises AttributeError
\* when design is None.  Returns the pattern and the new object state.
generate(self, design, params, n, elapsed) ==
    IF IsNone(design) THEN Raise("AttributeError")
    ELSE LET pat == [id |-> PatternId(n),
                     design_id |-> DictGet(design, "id", "unknown"),
                     pieces |-> GeneratedPieces(design),
                     metadata |-> PatternMetadata]
         IN [ok |-> TRUE, val |-> pat,
             self |-> [last_generation_time |-> elapsed,
                       metrics |-> [generation_time_ms |-> elapsed,
                                    num_pieces |-> Len(pat.pieces),
                                    total_area |-> 7000,
                                    seam_count |-> 2,
                                    complexity_score |-> 45]]]

\* FakePatternGenerator.get_generation_metrics
get_generation_metrics(self) == self.metrics

\* designs handed to generate(): without "id", with "id", with meshes, None
DesignInputs ==
    { [name |-> "Basic T-Shirt"],
      [id |-> "demo_tshirt_001", name |-> "Basic T-Shirt",
       meshes |-> << [id |-> "front_mesh"], [id |-> "back_mesh"],
                     [id |-> "sleeve_mesh"] >>],
      [id |-> "d2"],
      NoneVal }

ParamInputs == { NoneVal, [seam_allowance |-> 1] }

-----------------------------------------------------------------------------
(* FakeFabricSimulator.  Decimal literals are kept as integers in          *)
(* hundredths (0.95 is 95, 12.5 is 1250).                                  *)

SimulatorInit == [last_simulation_time |-> 0, metrics |-> EmptyDict]

\* f"draped_mesh_{n}"
MeshId(n) == <<"draped_mesh_", n>>

\* FakeFabricSimulator.simulate_draping: the arguments are not read
simulate_draping(self, pat, design, fabric, n, elapsed) ==
    [ok |-> TRUE,
     val |-> [id |-> MeshId(n),
              vertices |-> << [x |-> 0, y |-> 0, z |-> 0],
                              [x |-> 1000, y |-> 0, z |-> 50],
                              [x |-> 1000, y |-> 1000, z |-> 30],
                              [x |-> 0, y |-> 1000, z |-> 20] >>,
              faces |-> << [indices |-> <<0, 1, 2>>], [indices |-> <<0, 2, 3>>] >>,
              normals |-> << [x |-> 0, y |-> 0, z |-> 100],
                             [x |-> 0, y |-> 0, z |-> 100] >>,
              metadata |-> [version |-> DemoVersion,
                            simulated_by |-> "FakeFabricSimulator",
                            note |-> "DEMO ONLY - Not real physics simulation"]],
     self |-> [last_simulation_time |-> elapsed,
               metrics |-> [simulation_time_ms |-> elapsed,
                            iterations_completed |-> 100,
                            convergence_rate |-> 95,
                            energy |-> 1250,
                            stability |-> 98]]]

\* FakeFabricSimulator.calculate_fit: the arguments are not read
calculate_fit(self, fabric_mesh, body_mesh) ==
    [ok |-> TRUE,
     val |-> [ease_distribution |-> [bust |-> 500, waist |-> 300, hip |-> 450],
              pressure_points |-> << [location |-> "shoulder", pressure |-> 30],
                                     [location |-> "armpit", pressure |-> 50] >>,
              gap_areas |-> << [location |-> "waist_back", gap_cm |-> 80] >>,
              overall_fit_score |-> 82,
              metadata |-> [note |-> "DEMO - Placeholder fit metrics"]],
     self |-> self]

\* FakeFabricSimulator.get_simulation_metrics
get_simulation_metrics(self) == self.metrics

-----------------------------------------------------------------------------
(* FakeLayoutOptimizer.  random.uniform draws are integers in hundredths.  *)

OptimizerInit == [optimization_history |-> << >>, last_optimization_time |-> 0]

\* samples of random.uniform(0.65, 0.75) and random.uniform(25, 35)
UtilDraws  == {65, 75}
WasteDraws == {2500, 3500}

\* f"piece_{i}"
PieceName(i) == <<"piece_", i>>

\* A history that keeps only the latest result (assignment, not append).
HistoryOverwrite(history, result) == <<result>>

\* self.optimization_history.append(result)
HistoryAppend(history, result) == Append(history, result)

\* ((num_pieces * 60) / fabric_width) * 100 + 50 as the exact fraction num/den
FabricLength(num_pieces, fabric_width) ==
    [num |-> num_pieces * 60 * 100 + 50 * fabric_width, den |-> fabric_width]

\* the layout list built by optimize(): piece i (0-based) at x = i * 60
LayoutOf(pieces) ==
    [k \in 1..Len(pieces) |->
        [piece_id |-> DictGet(pieces[k], "id", PieceName(k - 1)),
         position |-> [x |-> (k - 1) * 60, y |-> 0],
         rotation |-> 0]]

\* FakeLayoutOptimizer.optimize(pattern, fabric, params).  util and waste are
\* the random.uniform draws, elapsed the measured time, oid the identity of
\* the result dict.  pattern.get / fabric.get raise AttributeError on None,
\* the division raises ZeroDivisionError when the fabric width is 0; both
\* happen before the history is touched.
optimize(self, pat, fabric, params, util, waste, elapsed, oid) ==
    IF IsNone(pat) \/ IsNone(fabric) THEN Raise("AttributeError")
    ELSE LET pieces == DictGet(pat, "pieces", << >>)
             fabric_width == DictGet(fabric, "width", 150)
         IN IF fabric_width = 0 THEN Raise("ZeroDivisionError")
            ELSE LET result ==
                        [oid |-> oid,
                         layout |-> LayoutOf(pieces),
                         fabric_length |-> FabricLength(Len(pieces), fabric_width),
                         utilization |-> util,
                         waste_percentage |-> waste,
                         optimization_time_ms |-> elapsed,
                         metadata |-> [version |-> DemoVersion,
                                       optimized_by |-> "FakeLayoutOptimizer",
                                       note |-> "DEMO ONLY - Not real optimization (no RL, no genetic algorithm)"]]
                 IN [ok |-> TRUE, val |-> result,
                     self |-> [optimization_history |->
                                   HistoryAppend(self.optimization_history, result),
                               last_optimization_time |-> elapsed]]

\* FakeLayoutOptimizer.evaluate_layout: the arguments are not read; draws is
\* the four random.uniform values
evaluate_layout(self, layout, pat, fabric, draws) ==
    [ok |-> TRUE,
     val |-> [utilization |-> draws[1], waste |-> draws[2],
              compactness |-> draws[3], grain_alignment |-> draws[4]],
     self |-> self]

\* samples of the four draws of evaluate_layout, in hundredths
EvalDraws == { <<65, 200000, 60, 70>>, <<75, 300000, 80, 90>> }

\* FakeLayoutOptimizer.suggest_improvements
suggest_improvements(self, layout, pat) ==
    << "Try rotating piece 1 by 90 degrees",
       "Consider grouping similar pieces together",
       "Review grain line alignment for piece 2" >>

\* FakeLayoutOptimizer.get_optimization_history
get_optimization_history(self) == self.optimization_history

-----------------------------------------------------------------------------
(* Mock API classes.  Each method takes the engine object it wraps and     *)
(* returns the envelope together with the engine's new state, or the       *)
(* exception the engine raised.                                            *)

WarnDemo == "This is demonstration data only"

\* MockPatternAPI.generate_pattern(design_data)
MockPatternAPI_generate_pattern(gen, design_data, n, elapsed) ==
    LET r == generate(gen, design_data, NoneVal, n, elapsed)
    IN IF ~r.ok THEN r
       ELSE [ok |-> TRUE,
             val |-> [success |-> TRUE,
                      data |-> [pattern |-> r.val,
                                metrics |-> get_generation_metrics(r.self)],
                      message |-> "DEMO: Pattern generated with placeholder data",
                      meta |-> [version |-> DemoVersion, warning |-> WarnDemo]],
             self |-> r.self]

\* MockPatternAPI.optimize_pattern(pattern_id)
MockPatternAPI_optimize_pattern(gen, pattern_id) ==
    [ok |-> TRUE,
     val |-> [success |-> TRUE,
              data |-> [pattern_id |-> pattern_id,
                        optimization_applied |-> FALSE,
                        message |-> "Demo only - no real optimization"],
              meta |-> [version |-> DemoVersion, warning |-> WarnDemo]],
     self |-> gen]

\* MockPatternAPI.get_pattern(pattern_id)
MockPatternAPI_get_pattern(gen, pattern_id) ==
    [ok |-> TRUE,
     val |-> [success |-> TRUE,
              data |-> [id |-> pattern_id,
                        pieces |-> << [id |-> "front", type |-> "front_panel",
                                       contour |-> << <<0, 0>>, <<50, 0>>, <<50, 70>>, <<0, 70>> >>],
                                      [id |-> "back", type |-> "back_panel",
                                       contour |-> << <<0, 0>>, <<50, 0>>, <<50, 70>>, <<0, 70>> >>] >>,
                        metadata |-> [note |-> "DEMO data - placeholder pattern"]],
              meta |-> [version |-> DemoVersion]],
     self |-> gen]

\* MockFabricAPI.simulate_draping(request_data)
MockFabricAPI_simulate_draping(sim, request_data, n, elapsed) ==
    IF IsNone(request_data) THEN Raise("AttributeError")
    ELSE LET r == simulate_draping(sim,
                                   DictGet(request_data, "pattern", EmptyDict),
                                   DictGet(request_data, "design", EmptyDict),
                                   DictGet(request_data, "fabric", EmptyDict),
                                   n, elapsed)
         IN IF ~r.ok THEN r
            ELSE [ok |-> TRUE,
                  val |-> [success |-> TRUE,
                           data |-> [draped_mesh |-> r.val,
                                     metrics |-> get_simulation_metrics(r.self)],
                           message |-> "DEMO: Simulation completed with placeholder physics",
                           meta |-> [version |-> DemoVersion,
                                     warning |-> "This is demonstration data only - no real physics simulation"]],
                  self |-> r.self]

\* MockFabricAPI.calculate_fit(request_data)
MockFabricAPI_calculate_fit(sim, request_data) ==
    IF IsNone(request_data) THEN Raise("AttributeError")
    ELSE LET r == calculate_fit(sim,
                                DictGet(request_data, "fabric_mesh", EmptyDict),
                                DictGet(request_data, "body_mesh", EmptyDict))
         IN IF ~r.ok THEN r
            ELSE [ok |-> TRUE,
                  val |-> [success |-> TRUE,
                           data |-> r.val,
                           message |-> "DEMO: Fit calculated with placeholder metrics",
                           meta |-> [version |-> DemoVersion, warning |-> WarnDemo]],
                  self |-> r.self]

\* MockFabricAPI.get_fabric_properties(fabric_id)
MockFabricAPI_get_fabric_properties(sim, fabric_id) ==
    [ok |-> TRUE,
     val |-> [success |-> TRUE,
              data |-> [id |-> fabric_id,
                        name |-> "Cotton Poplin (Demo)",
                        type |-> "cotton",
                        weight |-> "light",
                        width |-> 150,
                        physical_properties |-> [elasticity |-> 10, shear |-> 5, bend |-> 2,
                                                 note |-> "Placeholder values for demo"]],
              meta |-> [version |-> DemoVersion]],
     self |-> sim]

\* An optimize_layout that catches the optimizer's exception and answers
\* with an error envelope.
MockLayoutAPI_optimize_layout_catching(opt, request_data, util, waste, elapsed, oid) ==
    LET r == IF IsNone(request_data) THEN Raise("AttributeError")
             ELSE optimize(opt,
                           DictGet(request_data, "pattern", EmptyDict),
                           DictGet(request_data, "fabric", EmptyDict),
                           DictGet(request_data, "params", EmptyDict),
                           util, waste, elapsed, oid)
    IN [ok |-> TRUE,
        val |-> [success |-> r.ok,
                 data |-> IF r.ok THEN r.val ELSE EmptyDict,
                 message |-> IF r.ok
                             THEN "DEMO: Layout optimized with placeholder algorithm (no RL)"
                             ELSE r.exc,
                 meta |-> [version |-> DemoVersion,
                           warning |-> "This is demonstration data only - no real RL optimization"]],
        self |-> IF r.ok THEN r.self ELSE opt]

\* MockLayoutAPI.optimize_layout(request_data)
MockLayoutAPI_optimize_layout(opt, request_data, util, waste, elapsed, oid) ==
    IF IsNone(request_data) THEN Raise("AttributeError")
    ELSE LET r == optimize(opt,
                           DictGet(request_data, "pattern", EmptyDict),
                           DictGet(request_data, "fabric", EmptyDict),
                           DictGet(request_data, "params", EmptyDict),
                           util, waste, elapsed, oid)
         IN IF ~r.ok THEN r
            ELSE [ok |-> TRUE,
                  val |-> [success |-> TRUE,
                           data |-> r.val,
                           message |-> "DEMO: Layout optimized with placeholder algorithm (no RL)",
                           meta |-> [version |-> DemoVersion,
                                     warning |-> "This is demonstration data only - no real RL optimization"]],
                  self |-> r.self]

\* MockLayoutAPI.evaluate_layout(request_data)
MockLayoutAPI_evaluate_layout(opt, request_data, draws) ==
    IF IsNone(request_data) THEN Raise("AttributeError")
    ELSE LET pat == DictGet(request_data, "pattern", EmptyDict)
             r == evaluate_layout(opt,
                                  DictGet(request_data, "layout", << >>),
                                  pat,
                                  DictGet(request_data, "fabric", EmptyDict),
                                  draws)
         IN IF ~r.ok THEN r
            ELSE [ok |-> TRUE,
                  val |-> [success |-> TRUE,
                           data |-> [metrics |-> r.val,
                                     suggestions |-> suggest_improvements(r.self, EmptyDict, pat)],
                           message |-> "DEMO: Layout evaluated with placeholder metrics",
                           meta |-> [version |-> DemoVersion, warning |-> WarnDemo]],
                  self |-> r.self]

\* MockLayoutAPI.get_optimization_history()
MockLayoutAPI_get_optimization_history(opt) ==
    LET history == get_optimization_history(opt)
    IN [ok |-> TRUE,
        val |-> [success |-> TRUE,
                 data |-> [history |-> history, count |-> Len(history)],
                 meta |-> [version |-> DemoVersion]],
        self |-> opt]

-----------------------------------------------------------------------------
(* Initial values of the variable groups; a specification that does not    *)
(* use a group leaves it at these values.                                  *)

EngineInit == /\ generator = GeneratorInit
              /\ simulator = SimulatorInit
              /\ optimizer = OptimizerInit

GenIdle  == genOut = << >>
DemoIdle == /\ pc = [at |-> "idle", exc |-> "none"]
            /\ pattern = NoneVal
            /\ mesh = NoneVal
            /\ events = << >>
            /\ out = << >>
ApiIdle  == responses = << >> /\ raised = << >>
ConcIdle == tasks = << >> /\ nextObj = 0 /\ histResp = NoneVal
AreaIdle == outline = << >> /\ areaOut = << >>
BoxIdle  == boxA = NoneVal /\ boxB = NoneVal /\ boxOut = EmptyDict
MeasIdle == meas = NoneVal /\ measOut = << >>
TypesIdle == subject = NoneVal /\ calls = << >>

-----------------------------------------------------------------------------
(* SpecGen: a caller makes up to MaxGenCalls direct calls of               *)
(* FakePatternGenerator.generate on one generator object.                  *)

InitGen == /\ EngineInit /\ GenIdle /\ DemoIdle /\ ApiIdle /\ ConcIdle
           /\ AreaIdle /\ BoxIdle /\ MeasIdle /\ TypesIdle

GenerateCall ==
    \E d \in DesignInputs, p \in ParamInputs, n \in RandIds, t \in 0..MaxElapsedMs :
        /\ Len(genOut) < MaxGenCalls
        /\ LET r == generate(generator, d, p, n, t)
           IN /\ genOut' = Append(genOut, [design |-> d, params |-> p,
                                           result |-> IF r.ok THEN Ok(r.val) ELSE r])
              /\ generator' = IF r.ok THEN r.self ELSE generator
        /\ UNCHANGED <<simulator, optimizer, demoVars, apiVars, concVars,
                       areaVars, boxVars, measVars, typeVars>>

NextGen == GenerateCall

SpecGen == InitGen /\ [][NextGen]_vars

\* the generate calls that returned a pattern
Generated == { i \in 1..Len(genOut) : genOut[i].result.ok }

\* C1: generate is a fixed-output stub.  Any two returned patterns, whatever
\* the designs and params, have the same pieces (front_panel and back_panel,
\* with empty notches) and the same metadata; the id is pattern_<n> with
\* 1000 <= n <= 9999 and design_id is the design's "id", or "unknown" when
\* the design has none.
C1_FixedOutput ==
    \A i \in Generated :
        LET p == genOut[i].result.val
            d == genOut[i].design
        IN /\ \A j \in Generated :
                /\ genOut[j].result.val.pieces = p.pieces
                /\ genOut[j].result.val.metadata = p.metadata
           /\ Len(p.pieces) = 2
           /\ p.pieces[1].id = "front_panel"
           /\ p.pieces[2].id = "back_panel"
           /\ \A k \in 1..2 : p.pieces[k].notches = << >>
           /\ DOMAIN p = {"id", "design_id", "pieces", "metadata"}
           /\ p.id[1] = "pattern_"
           /\ p.id[2] >= 1000 /\ p.id[2] <= 9999
           /\ p.design_id = IF "id" \in DOMAIN d THEN d.id ELSE "unknown"

\* two calls with different designs and different params both returned
C1_Witness ==
    \E i, j \in Generated :
        /\ genOut[i].design # genOut[j].design
        /\ genOut[i].params # genOut[j].params
        /\ "id" \notin DOMAIN genOut[i].design
        /\ "meshes" \in DOMAIN genOut[j].design
        /\ genOut[i].result.val.id # genOut[j].result.val.id

-----------------------------------------------------------------------------
(* demo.py: main() and the three demo functions.  pc.at is main()'s        *)
(* position, pc.exc the demo step whose exception main() has seen ("none"  *)
(* while there is none).  A demo step can raise at a print before its API  *)
(* call ("before") or at a print after it ("after").                       *)

SquareVertices == << <<0, 0, 0>>, <<50, 0, 0>>, <<50, 70, 0>>, <<0, 70, 0>> >>
TwoFaces == << <<0, 1, 2>>, <<0, 2, 3>> >>

\* demo_pattern_generation: design_data
demo_design_data ==
    [id |-> "demo_tshirt_001", name |-> "Basic T-Shirt",
     meshes |-> << [id |-> "front_mesh", vertices |-> SquareVertices, faces |-> TwoFaces],
                   [id |-> "back_mesh", vertices |-> SquareVertices, faces |-> TwoFaces] >>]

\* demo_fabric_simulation: fabric_data
demo_fabric_data ==
    [id |-> "cotton_poplin_001", name |-> "Cotton Poplin", type |-> "cotton",
     weight |-> "light", width |-> 150,
     physical_properties |-> [elasticity |-> 10, shear |-> 5, bend |-> 2]]

\* demo_fabric_simulation: request_data
demo_draping_request(pat) ==
    [pattern |-> pat, design |-> [id |-> "demo_tshirt_001"], fabric |-> demo_fabric_data]

\* demo_fabric_simulation: fit_request
demo_fit_request(draped_mesh) ==
    [fabric_mesh |-> draped_mesh,
     body_mesh |-> [id |-> "body_001", vertices |-> << >>, faces |-> << >>]]

\* A layout request that does not carry the generated pattern.
demo_layout_request_no_pattern(pat) ==
    [pattern |-> EmptyDict,
     fabric |-> [id |-> "fabric_001", width |-> 150],
     params |-> [target_efficiency |-> 90, allow_rotation |-> TRUE,
                 rotation_step |-> 45, spacing |-> 100]]

\* demo_layout_optimization: request_data
demo_layout_request(pat) ==
    [pattern |-> pat,
     fabric |-> [id |-> "fabric_001", width |-> 150],
     params |-> [target_efficiency |-> 90, allow_rotation |-> TRUE,
                 rotation_step |-> 45, spacing |-> 100]]

\* demo_layout_optimization: the evaluate_layout request
demo_evaluate_request(layout, pat, request_data) ==
    [layout |-> layout, pattern |-> pat, fabric |-> request_data.fabric]

FailModes == {"none", "before", "after"}

DemoSteps == <<"demo1", "demo2_drape", "demo2_fit", "demo3_opt", "demo3_eval">>

\* the statement main() runs after `step` returns
NextStep(step) ==
    CASE step = "banner"      -> "demo1"
      [] step = "demo1"       -> "demo2_drape"
      [] step = "demo2_drape" -> "demo2_fit"
      [] step = "demo2_fit"   -> "demo3_opt"
      [] step = "demo3_opt"   -> "demo3_eval"
      [] step = "demo3_eval"  -> "summary"
      [] step = "summary"     -> "done"
      [] step = "except"      -> "done"

\* An except clause that swallows the exception and goes on with the
\* next statement of the try block.
OnExceptionContinue(step) == NextStep(step)

\* where control goes when `step` raises an Exception inside main()'s try
OnException(step) == "except"

\* a line group written to stdout
Printed(kind, text) == [kind |-> kind, text |-> text]

Call(name, arg)  == [api |-> name, phase |-> "call", val |-> arg]
Return(name, resp) == [api |-> name, phase |-> "return", val |-> resp]

\* the envelope the named API call of this run returned
Returned(name) ==
    events[CHOOSE i \in 1..Len(events) :
              events[i].api = name /\ events[i].phase = "return"].val

InitDemo == /\ EngineInit /\ GenIdle /\ ApiIdle /\ ConcIdle
            /\ AreaIdle /\ BoxIdle /\ MeasIdle /\ TypesIdle
            /\ pc = [at |-> "banner", exc |-> "none"]
            /\ pattern = NoneVal
            /\ mesh = NoneVal
            /\ events = << >>
            /\ out = << >>

notDemo == <<genOut, apiVars, concVars, areaVars, boxVars, measVars, typeVars>>

\* main(): the banner and notice printed before the try block
Banner ==
    /\ pc.at = "banner"
    /\ out' = Append(out, Printed("notice", "IMPORTANT NOTICE"))
    /\ pc' = [pc EXCEPT !.at = NextStep("banner")]
    /\ UNCHANGED <<engineVars, pattern, mesh, events, notDemo>>

\* pattern = await demo_pattern_generation()
DemoPatternGeneration ==
    /\ pc.at = "demo1"
    /\ \E f \in FailModes, n \in RandIds, t \in 0..MaxElapsedMs :
        LET r == MockPatternAPI_generate_pattern(generator, demo_design_data, n, t)
            ev == <<Call("generate_pattern", demo_design_data),
                    Return("generate_pattern", r.val)>>
        IN /\ out' = Append(out, Printed("section", "DEMO 1: Pattern Generation"))
           /\ IF f = "before"
              THEN /\ pc' = [at |-> OnException("demo1"), exc |-> "demo1"]
                   /\ UNCHANGED <<generator, events, pattern>>
              ELSE /\ generator' = r.self
                   /\ events' = events \o ev
                   /\ IF f = "after"
                      THEN /\ pc' = [at |-> OnException("demo1"), exc |-> "demo1"]
                           /\ UNCHANGED pattern
                      ELSE /\ pc' = [pc EXCEPT !.at = NextStep("demo1")]
                           /\ pattern' = r.val.data.pattern
    /\ UNCHANGED <<simulator, optimizer, mesh, notDemo>>

\* demo_fabric_simulation(pattern), up to the draping result
DemoDraping ==
    /\ pc.at = "demo2_drape"
    /\ \E f \in FailModes, n \in RandIds, t \in 0..MaxElapsedMs :
        LET req == demo_draping_request(pattern)
            r == MockFabricAPI_simulate_draping(simulator, req, n, t)
            ev == <<Call("simulate_draping", req), Return("simulate_draping", r.val)>>
        IN /\ out' = Append(out, Printed("section", "DEMO 2: Fabric Simulation"))
           /\ IF f = "before"
              THEN /\ pc' = [at |-> OnException("demo2_drape"), exc |-> "demo2_drape"]
                   /\ UNCHANGED <<simulator, events>>
              ELSE /\ simulator' = r.self
                   /\ events' = events \o ev
                   /\ pc' = IF f = "after"
                            THEN [at |-> OnException("demo2_drape"), exc |-> "demo2_drape"]
                            ELSE [pc EXCEPT !.at = NextStep("demo2_drape")]
    /\ UNCHANGED <<generator, optimizer, pattern, mesh, notDemo>>

\* demo_fabric_simulation(pattern), the fit calculation; mesh = its return
DemoFit ==
    /\ pc.at = "demo2_fit"
    /\ \E f \in FailModes :
        LET draped == Returned("simulate_draping").data.draped_mesh
            req == demo_fit_request(draped)
            r == MockFabricAPI_calculate_fit(simulator, req)
            ev == <<Call("calculate_fit", req), Return("calculate_fit", r.val)>>
        IN IF f = "before"
           THEN /\ pc' = [at |-> OnException("demo2_fit"), exc |-> "demo2_fit"]
                /\ UNCHANGED <<simulator, events, mesh>>
           ELSE /\ simulator' = r.self
                /\ events' = events \o ev
                /\ IF f = "after"
                   THEN /\ pc' = [at |-> OnException("demo2_fit"), exc |-> "demo2_fit"]
                        /\ UNCHANGED mesh
                   ELSE /\ pc' = [pc EXCEPT !.at = NextStep("demo2_fit")]
                        /\ mesh' = draped
    /\ UNCHANGED <<generator, optimizer, pattern, out, notDemo>>

\* demo_layout_optimization(pattern), up to the optimization result
DemoOptimize ==
    /\ pc.at = "demo3_opt"
    /\ \E f \in FailModes, u \in UtilDraws, w \in WasteDraws, t \in 0..MaxElapsedMs :
        LET req == demo_layout_request(pattern)
            r == MockLayoutAPI_optimize_layout(optimizer, req, u, w, t, 0)
            ev == <<Call("optimize_layout", req), Return("optimize_layout", r.val)>>
        IN /\ out' = Append(out, Printed("section", "DEMO 3: Layout Optimization"))
           /\ IF f = "before"
              THEN /\ pc' = [at |-> OnException("demo3_opt"), exc |-> "demo3_opt"]
                   /\ UNCHANGED <<optimizer, events>>
              ELSE /\ optimizer' = r.self
                   /\ events' = events \o ev
                   /\ pc' = IF f = "after"
                            THEN [at |-> OnException("demo3_opt"), exc |-> "demo3_opt"]
                            ELSE [pc EXCEPT !.at = NextStep("demo3_opt")]
    /\ UNCHANGED <<generator, simulator, pattern, mesh, notDemo>>

\* demo_layout_optimization(pattern), the evaluation
DemoEvaluate ==
    /\ pc.at = "demo3_eval"
    /\ \E f \in FailModes, d \in EvalDraws :
        LET req == demo_evaluate_request(Returned("optimize_layout").data.layout,
                                         pattern, demo_layout_request(pattern))
            r == MockLayoutAPI_evaluate_layout(optimizer, req, d)
            ev == <<Call("evaluate_layout", req), Return("evaluate_layout", r.val)>>
        IN IF f = "before"
           THEN /\ pc' = [at |-> OnException("demo3_eval"), exc |-> "demo3_eval"]
                /\ UNCHANGED <<optimizer, events>>
           ELSE /\ optimizer' = r.self
                /\ events' = events \o ev
                /\ pc' = IF f = "after"
                         THEN [at |-> OnException("demo3_eval"), exc |-> "demo3_eval"]
                         ELSE [pc EXCEPT !.at = NextStep("demo3_eval")]
    /\ UNCHANGED <<generator, simulator, pattern, mesh, out, notDemo>>

\* main(): the summary printed at the end of the try block
Summary ==
    /\ pc.at = "summary"
    /\ out' = Append(out, Printed("section", "DEMO COMPLETE"))
    /\ pc' = [pc EXCEPT !.at = NextStep("summary")]
    /\ UNCHANGED <<engineVars, pattern, mesh, events, notDemo>>

\* main(): except Exception as e -- print the error and the traceback
ExceptHandler ==
    /\ pc.at = "except"
    /\ out' = out \o <<Printed("error", pc.exc), Printed("traceback", pc.exc)>>
    /\ pc' = [pc EXCEPT !.at = NextStep("except")]
    /\ UNCHANGED <<engineVars, pattern, mesh, events, notDemo>>

NextDemo ==
    \/ Banner
    \/ DemoPatternGeneration
    \/ DemoDraping
    \/ DemoFit
    \/ DemoOptimize
    \/ DemoEvaluate
    \/ Summary
    \/ ExceptHandler

\* asyncio.run(main()) drives main() until it returns
SpecDemo == InitDemo /\ [][NextDemo]_vars /\ WF_vars(NextDemo)

\* the API calls of the demo, in program order
DemoApiOrder == <<"generate_pattern", "simulate_draping", "calculate_fit",
                  "optimize_layout", "evaluate_layout">>

\* C2: main() calls the mocks strictly in sequence.  The events are, in
\* order, the call and the return of generate_pattern, simulate_draping,
\* calculate_fit, optimize_layout and evaluate_layout (each call returns
\* before the next starts), and the pattern handed to the fabric-simulation
\* and layout-optimization calls is the pattern generate_pattern returned.
C2_InSequence ==
    /\ Len(events) <= 2 * Len(DemoApiOrder)
    /\ \A i \in 1..Len(events) :
        /\ events[i].api = DemoApiOrder[(i + 1) \div 2]
        /\ events[i].phase = IF i % 2 = 1 THEN "call" ELSE "return"
        /\ (events[i].phase = "call"
              /\ events[i].api \in {"simulate_draping", "optimize_layout", "evaluate_layout"})
           => /\ events[i].val.pattern = events[2].val.data.pattern
              /\ events[i].val.pattern = pattern

\* a complete run: all five calls made and returned, main() returned
C2_Witness ==
    /\ pc = [at |-> "done", exc |-> "none"]
    /\ Len(events) = 10
    /\ events[7].val.pattern = pattern
    /\ pattern.id = PatternId(9999)

\* position of a demo step in program order
StepIndex(step) == CHOOSE k \in 1..Len(DemoSteps) : DemoSteps[k] = step

\* the section header each demo function prints first
SectionOf(k) ==
    CASE k = 1 -> "DEMO 1: Pattern Generation"
      [] k \in {2, 3} -> "DEMO 2: Fabric Simulation"
      [] k \in {4, 5} -> "DEMO 3: Layout Optimization"

C3_Caught ==
    pc.exc # "none" =>
        LET k == StepIndex(pc.exc)
        IN /\ pc.at \in {"except", "done"}
           /\ \A i \in 1..Len(events) :
                \A j \in (k + 1)..Len(DemoSteps) : events[i].api # DemoApiOrder[j]
           /\ \A i \in 1..Len(out) :
                /\ out[i] # Printed("section", "DEMO COMPLETE")
                /\ \A j \in (k + 1)..Len(DemoSteps) :
                      SectionOf(j) # SectionOf(k) => out[i] # Printed("section", SectionOf(j))
           /\ pc.at = "done" =>
                /\ \E i \in 1..Len(out) : out[i] = Printed("error", pc.exc)
                /\ \E i \in 1..Len(out) : out[i] = Printed("traceback", pc.exc)

\* C3: when a demo step raises an Exception, main() catches it, reports
\* the error and the traceback, runs no later demo step, does not print
\* DEMO COMPLETE and returns normally; and every run of main() terminates.
C3_ErrorHandling == []C3_Caught /\ <>(pc.at = "done")

\* a run in which the draping step raised after its API call, and main()
\* has returned
C3_Witness ==
    /\ pc = [at |-> "done", exc |-> "demo2_drape"]
    /\ Len(events) = 4
    /\ \E i \in 1..Len(out) : out[i] = Printed("traceback", "demo2_drape")

-----------------------------------------------------------------------------
(* SpecAPI: a client makes up to MaxApiCalls calls, in any order and with  *)
(* any of the inputs below, on one MockPatternAPI, one MockFabricAPI and   *)
(* one MockLayoutAPI.  A call either returns an envelope (logged in        *)
(* responses) or raises (logged in raised).                                *)

PatternIdInputs == {"pattern_1234"}
FabricIdInputs  == {"cotton_poplin_001"}

DrapingRequests == { EmptyDict, demo_draping_request(EmptyDict), NoneVal }
FitRequests     == { EmptyDict, NoneVal }

\* optimize_layout requests: complete, without pieces and width, with a
\* fabric of width 0, with a pattern of None, and None itself
LayoutRequests ==
    { [pattern |-> [pieces |-> <<FrontPanel, [type |-> "back"]>>],
       fabric |-> [id |-> "fabric_001", width |-> 150]],
      EmptyDict,
      [pattern |-> [pieces |-> <<FrontPanel>>], fabric |-> [width |-> 0]],
      [pattern |-> NoneVal, fabric |-> [width |-> 150]],
      NoneVal }

EvaluateRequests == { [layout |-> << >>, pattern |-> EmptyDict], NoneVal }

InitAPI == /\ EngineInit /\ GenIdle /\ DemoIdle /\ ApiIdle /\ ConcIdle
           /\ AreaIdle /\ BoxIdle /\ MeasIdle /\ TypesIdle

notAPI == <<genOut, demoVars, tasks, histResp, areaVars, boxVars, measVars, typeVars>>

CanCall == Len(responses) + Len(raised) < MaxApiCalls

\* the caller receives the envelope, or the exception
Deliver(method, request, r) ==
    IF r.ok
    THEN /\ responses' = Append(responses, [method |-> method, request |-> request,
                                            envelope |-> r.val])
         /\ UNCHANGED raised
    ELSE /\ raised' = Append(raised, [method |-> method, request |-> request,
                                      exc |-> r.exc])
         /\ UNCHANGED responses

CallGeneratePattern ==
    /\ CanCall
    /\ \E d \in DesignInputs, t \in 0..MaxElapsedMs :
        LET r == MockPatternAPI_generate_pattern(generator, d, RandHi, t)
        IN /\ Deliver("generate_pattern", d, r)
           /\ generator' = IF r.ok THEN r.self ELSE generator
    /\ UNCHANGED <<simulator, optimizer, nextObj, notAPI>>

CallOptimizePattern ==
    /\ CanCall
    /\ \E id \in PatternIdInputs :
        Deliver("optimize_pattern", [pattern_id |-> id],
                MockPatternAPI_optimize_pattern(generator, id))
    /\ UNCHANGED <<engineVars, nextObj, notAPI>>

CallGetPattern ==
    /\ CanCall
    /\ \E id \in PatternIdInputs :
        Deliver("get_pattern", [pattern_id |-> id],
                MockPatternAPI_get_pattern(generator, id))
    /\ UNCHANGED <<engineVars, nextObj, notAPI>>

CallSimulateDraping ==
    /\ CanCall
    /\ \E req \in DrapingRequests, t \in 0..MaxElapsedMs :
        LET r == MockFabricAPI_simulate_draping(simulator, req, RandLo, t)
        IN /\ Deliver("simulate_draping", req, r)
           /\ simulator' = IF r.ok THEN r.self ELSE simulator
    /\ UNCHANGED <<generator, optimizer, nextObj, notAPI>>

CallCalculateFit ==
    /\ CanCall
    /\ \E req \in FitRequests :
        LET r == MockFabricAPI_calculate_fit(simulator, req)
        IN /\ Deliver("calculate_fit", req, r)
           /\ simulator' = IF r.ok THEN r.self ELSE simulator
    /\ UNCHANGED <<generator, optimizer, nextObj, notAPI>>

CallGetFabricProperties ==
    /\ CanCall
    /\ \E id \in FabricIdInputs :
        Deliver("get_fabric_properties", [fabric_id |-> id],
                MockFabricAPI_get_fabric_properties(simulator, id))
    /\ UNCHANGED <<engineVars, nextObj, notAPI>>

CallOptimizeLayout ==
    /\ CanCall
    /\ \E req \in LayoutRequests, u \in UtilDraws, w \in WasteDraws, t \in 0..MaxElapsedMs :
        LET r == MockLayoutAPI_optimize_layout(optimizer, req, u, w, t, nextObj)
        IN /\ Deliver("optimize_layout", req, r)
           /\ optimizer' = IF r.ok THEN r.self ELSE optimizer
           /\ nextObj' = IF r.ok THEN nextObj + 1 ELSE nextObj
    /\ UNCHANGED <<generator, simulator, notAPI>>

CallEvaluateLayout ==
    /\ CanCall
    /\ \E req \in EvaluateRequests, d \in EvalDraws :
        LET r == MockLayoutAPI_evaluate_layout(optimizer, req, d)
        IN /\ Deliver("evaluate_layout", req, r)
           /\ optimizer' = IF r.ok THEN r.self ELSE optimizer
    /\ UNCHANGED <<generator, simulator, nextObj, notAPI>>

CallGetOptimizationHistory ==
    /\ CanCall
    /\ Deliver("get_optimization_history", EmptyDict,
               MockLayoutAPI_get_optimization_history(optimizer))
    /\ UNCHANGED <<engineVars, nextObj, notAPI>>

NextAPI ==
    \/ CallGeneratePattern
    \/ CallOptimizePattern
    \/ CallGetPattern
    \/ CallSimulateDraping
    \/ CallCalculateFit
    \/ CallGetFabricProperties
    \/ CallOptimizeLayout
    \/ CallEvaluateLayout
    \/ CallGetOptimizationHistory

SpecAPI == InitAPI /\ [][NextAPI]_vars

\* an optimize_layout request on which FakeLayoutOptimizer.optimize fails
StubFails(method, request) ==
    /\ method = "optimize_layout"
    /\ ~IsNone(request)
    /\ LET pat == DictGet(request, "pattern", EmptyDict)
           fabric == DictGet(request, "fabric", EmptyDict)
       IN \/ IsNone(pat)
          \/ DictGet(fabric, "width", 150) = 0

\* C4: every dict a mock API method returns is an envelope with
\* success = TRUE and meta.version = "1.0.0-demo"; none has success = FALSE.
\* A call whose underlying stub fails returns no envelope: the caller gets
\* the stub's exception.
C4_CannedEnvelopes ==
    /\ \A i \in 1..Len(responses) :
        LET e == responses[i].envelope
        IN /\ e.success = TRUE
           /\ e.meta.version = "1.0.0-demo"
           /\ "data" \in DOMAIN e
           /\ ~StubFails(responses[i].method, responses[i].request)
    /\ \A i \in 1..Len(raised) :
        raised[i].exc \in {"AttributeError", "ZeroDivisionError"}

\* one optimize_layout call returned an envelope and another, on a fabric
\* of width 0, raised ZeroDivisionError
C4_Witness ==
    /\ \E i \in 1..Len(responses) :
        /\ responses[i].method = "optimize_layout"
        /\ Len(responses[i].envelope.data.layout) = 2
    /\ \E i \in 1..Len(raised) :
        /\ raised[i].method = "optimize_layout"
        /\ raised[i].exc = "ZeroDivisionError"

-----------------------------------------------------------------------------
(* SpecConc: NumTasks optimize_layout coroutines run as tasks of one event *)
(* loop on one MockLayoutAPI.  A task can be descheduled only at an await; *)
(* every await of optimize_layout is taken as a point where another task   *)
(* may run.  FakeLayoutOptimizer.optimize contains no await, so its body   *)
(* is one step.  When all tasks are finished a caller asks for the         *)
(* history.                                                                *)

ConcRequests ==
    { [pattern |-> [pieces |-> <<FrontPanel, BackPanel>>],
       fabric |-> [id |-> "fabric_001", width |-> 150]],
      EmptyDict,
      [pattern |-> [pieces |-> <<FrontPanel>>], fabric |-> [width |-> 0]] }

InitConc == /\ EngineInit /\ GenIdle /\ DemoIdle /\ ApiIdle
            /\ AreaIdle /\ BoxIdle /\ MeasIdle /\ TypesIdle
            /\ tasks \in [1..NumTasks ->
                            {[pc |-> "pending", request |-> r, envelope |-> NoneVal] :
                                r \in ConcRequests}]
            /\ nextObj = 0
            /\ histResp = NoneVal

notConc == <<genOut, demoVars, apiVars, areaVars, boxVars, measVars, typeVars>>

\* the task starts: optimize_layout runs up to `await self.optimizer.optimize(...)`
TaskEnter(i) ==
    /\ tasks[i].pc = "pending"
    /\ tasks' = [tasks EXCEPT ![i].pc = "awaiting"]
    /\ UNCHANGED <<engineVars, nextObj, histResp, notConc>>

\* optimize() runs to its return (or raises) and optimize_layout builds
\* its envelope from the result
TaskOptimize(i) ==
    /\ tasks[i].pc = "awaiting"
    /\ \E u \in UtilDraws, w \in WasteDraws, t \in {0, MaxElapsedMs} :
        LET r == MockLayoutAPI_optimize_layout(optimizer, tasks[i].request,
                                               u, w, t, nextObj)
        IN IF r.ok
           THEN /\ optimizer' = r.self
                /\ nextObj' = nextObj + 1
                /\ tasks' = [tasks EXCEPT ![i].pc = "resumed", ![i].envelope = r.val]
           ELSE /\ tasks' = [tasks EXCEPT ![i].pc = "raised"]
                /\ UNCHANGED <<optimizer, nextObj>>
    /\ UNCHANGED <<generator, simulator, histResp, notConc>>

\* the task finishes: its caller receives the envelope
TaskReturn(i) ==
    /\ tasks[i].pc = "resumed"
    /\ tasks' = [tasks EXCEPT ![i].pc = "returned"]
    /\ UNCHANGED <<engineVars, nextObj, histResp, notConc>>

AllFinished == \A i \in 1..NumTasks : tasks[i].pc \in {"returned", "raised"}

\* a later get_optimization_history()
GetHistory ==
    /\ AllFinished
    /\ histResp = NoneVal
    /\ histResp' = MockLayoutAPI_get_optimization_history(optimizer).val
    /\ UNCHANGED <<engineVars, tasks, nextObj, notConc>>

NextConc ==
    \/ \E i \in 1..NumTasks : TaskEnter(i)
    \/ \E i \in 1..NumTasks : TaskOptimize(i)
    \/ \E i \in 1..NumTasks : TaskReturn(i)
    \/ GetHistory

SpecConc == InitConc /\ [][NextConc]_vars

\* tasks whose optimize() call has completed
Optimized == { i \in 1..NumTasks : tasks[i].pc \in {"resumed", "returned"} }

\* positions of the history holding the result dict with identity oid
EntriesOf(oid) ==
    { k \in 1..Len(optimizer.optimization_history) :
        optimizer.optimization_history[k].oid = oid }

\* C5: under every interleaving, each optimize_layout call appends exactly
\* one entry to the shared history (none is lost or duplicated), the data
\* of the envelope a call returns is the entry that call appended, and a
\* get_optimization_history made after N calls returned reports count = N.
C5_NoLostUpdate ==
    /\ Len(optimizer.optimization_history) = Cardinality(Optimized)
    /\ \A i \in Optimized :
        /\ Cardinality(EntriesOf(tasks[i].envelope.data.oid)) = 1
        /\ \A k \in EntriesOf(tasks[i].envelope.data.oid) :
              optimizer.optimization_history[k] = tasks[i].envelope.data
        /\ \A j \in Optimized :
              j # i => tasks[j].envelope.data.oid # tasks[i].envelope.data.oid
    /\ ~IsNone(histResp) =>
        /\ histResp.data.count = Cardinality(Optimized)
        /\ Len(histResp.data.history) = histResp.data.count
        /\ (\A i \in 1..NumTasks : tasks[i].pc = "returned")
              => histResp.data.count = NumTasks

\* all N tasks ran interleaved (both were at their await at once, and the
\* second to start was the first to append), all returned, and the history
\* was read
C5_Witness ==
    /\ \A i \in 1..NumTasks : tasks[i].pc = "returned"
    /\ ~IsNone(histResp)
    /\ histResp.data.count = NumTasks
    /\ tasks[1].envelope.data.oid > tasks[NumTasks].envelope.data.oid
    /\ tasks[1].envelope.data # tasks[NumTasks].envelope.data

-----------------------------------------------------------------------------
(* data_models.PatternPiece.get_area.  Coordinates are integers; an area   *)
(* is the exact fraction num/den.                                          *)

Abs(n) == IF n < 0 THEN 0 - n ELSE n

RECURSIVE SumTo(_, _)
\* sum(f(i) for i in range(1, n + 1))
SumTo(f, n) == IF n = 0 THEN 0 ELSE f[n] + SumTo(f, n - 1)

OutlineMinLength == 3

\* A shoelace sum that also takes the edge from the last point to the first.
get_area_closing(pts) ==
    IF Len(pts) < 3 THEN [num |-> 0, den |-> 1]
    ELSE LET n == Len(pts)
             term == [i \in 1..n |->
                        pts[i].x * pts[(i % n) + 1].y - pts[(i % n) + 1].x * pts[i].y]
         IN [num |-> Abs(SumTo(term, n)), den |-> 2]

\* PatternPiece.get_area: 0.5 * abs(sum(x[i] * y[i + 1] - x[i + 1] * y[i]
\*                                      for i in range(len(points) - 1)))
get_area(pts) ==
    IF Len(pts) < 3 THEN [num |-> 0, den |-> 1]
    ELSE LET n == Len(pts)
             term == [i \in 1..(n - 1) |->
                        pts[i].x * pts[i + 1].y - pts[i + 1].x * pts[i].y]
         IN [num |-> Abs(SumTo(term, n - 1)), den |-> 2]

\* the outline with every point moved by (dx, dy)
Translate(pts, dx, dy) == [i \in 1..Len(pts) |-> Pt(pts[i].x + dx, pts[i].y + dy)]

GridPoints == { Pt(x, y) : x \in 0..AreaCoord, y \in 0..AreaCoord }

\* the outlines a PatternPiece accepts: min_length = 3, and the validator
\* validate_closed_outline returns every such list unchanged
Outlines == UNION { [1..n -> GridPoints] : n \in OutlineMinLength..MaxOutline }

InitArea == /\ EngineInit /\ GenIdle /\ DemoIdle /\ ApiIdle /\ ConcIdle
            /\ BoxIdle /\ MeasIdle /\ TypesIdle
            /\ outline \in Outlines
            /\ areaOut = << >>

notArea == <<engineVars, genOut, demoVars, apiVars, concVars, boxVars, measVars, typeVars>>

\* piece.get_area()
GetArea ==
    /\ areaOut = << >>
    /\ areaOut' = <<[outline |-> outline, area |-> get_area(outline)]>>
    /\ UNCHANGED <<outline, notArea>>

\* get_area() of a second piece whose outline is the first one translated
GetAreaTranslated ==
    /\ Len(areaOut) = 1
    /\ \E dx \in 0..MaxShift, dy \in 0..MaxShift :
        LET moved == Translate(outline, dx, dy)
        IN areaOut' = Append(areaOut, [outline |-> moved, area |-> get_area(moved)])
    /\ UNCHANGED <<outline, notArea>>

NextArea == GetArea \/ GetAreaTranslated

SpecArea == InitArea /\ [][NextArea]_vars

\* twice the signed area of the closed polygon through pts, by the
\* shoelace formula with the closing edge
ClosedShoelace2(pts) ==
    LET n == Len(pts)
        term == [i \in 1..n |->
                    pts[i].x * pts[(i % n) + 1].y - pts[(i % n) + 1].x * pts[i].y]
    IN SumTo(term, n)

\* C6: get_area returns the shoelace area of the closed polygon through
\* the outline points, closing edge included, for every outline of at
\* least 3 points, and the area is the same for a translated outline.
C6_ShoelaceArea ==
    \A i \in 1..Len(areaOut) :
        /\ areaOut[i].area.num * 2 = Abs(ClosedShoelace2(areaOut[i].outline)) * areaOut[i].area.den
        /\ \A j \in 1..Len(areaOut) :
              areaOut[i].area.num * areaOut[j].area.den
                  = areaOut[j].area.num * areaOut[i].area.den

-----------------------------------------------------------------------------
(* common.BoundingBox2D.  The dataclass has no __post_init__: any two      *)
(* points make a box, also with min_point beyond max_point.  Coordinates   *)
(* are integers; iou returns the exact fraction num/den.                   *)

Min(a, b) == IF a <= b THEN a ELSE b
Max(a, b) == IF a >= b THEN a ELSE b

Box(x0, y0, x1, y1) == [min_point |-> Pt(x0, y0), max_point |-> Pt(x1, y1)]

\* BoundingBox2D.width / height / area
width(self)  == self.max_point.x - self.min_point.x
height(self) == self.max_point.y - self.min_point.y
area(self)   == width(self) * height(self)

\* An overlap test with strict comparisons: touching boxes do not intersect.
intersects_strict(self, other) ==
    ~ \/ self.max_point.x <= other.min_point.x
      \/ self.min_point.x >= other.max_point.x
      \/ self.max_point.y <= other.min_point.y
      \/ self.min_point.y >= other.max_point.y

\* An overlap test that looks at the x axis only.
intersects_x_only(self, other) ==
    ~ \/ self.max_point.x < other.min_point.x
      \/ self.min_point.x > other.max_point.x

\* BoundingBox2D.intersects
intersects(self, other) ==
    ~ \/ self.max_point.x < other.min_point.x
      \/ self.min_point.x > other.max_point.x
      \/ self.max_point.y < other.min_point.y
      \/ self.min_point.y > other.max_point.y

\* BoundingBox2D.intersection: None, or the box of the overlap
intersection(self, other) ==
    IF ~intersects(self, other) THEN NoneVal
    ELSE Box(Max(self.min_point.x, other.min_point.x),
             Max(self.min_point.y, other.min_point.y),
             Min(self.max_point.x, other.max_point.x),
             Min(self.max_point.y, other.max_point.y))

\* An IoU whose union is the plain sum of the two areas.
iou_union_as_sum(self, other) ==
    LET intersection_box == intersection(self, other)
    IN IF IsNone(intersection_box) THEN [num |-> 0, den |-> 1]
       ELSE LET union_area == area(self) + area(other)
            IN IF union_area = 0 THEN [num |-> 0, den |-> 1]
               ELSE [num |-> area(intersection_box), den |-> union_area]

\* BoundingBox2D.iou
iou(self, other) ==
    LET intersection_box == intersection(self, other)
    IN IF IsNone(intersection_box) THEN [num |-> 0, den |-> 1]
       ELSE LET intersection_area == area(intersection_box)
                union_area == area(self) + area(other) - intersection_area
            IN IF union_area = 0 THEN [num |-> 0, den |-> 1]
               ELSE [num |-> intersection_area, den |-> union_area]

Boxes == { Box(x0, y0, x1, y1) : x0 \in 0..MaxCoord, y0 \in 0..MaxCoord,
                                 x1 \in 0..MaxCoord, y1 \in 0..MaxCoord }

InitBox == /\ EngineInit /\ GenIdle /\ DemoIdle /\ ApiIdle /\ ConcIdle
           /\ AreaIdle /\ MeasIdle /\ TypesIdle
           /\ boxA \in Boxes
           /\ boxB \in Boxes
           /\ boxOut = EmptyDict

notBox == <<engineVars, genOut, demoVars, apiVars, concVars, areaVars, measVars, typeVars>>

\* boxOut with the result of one more method call
Result(key, val) ==
    [k \in DOMAIN boxOut \cup {key} |-> IF k = key THEN val ELSE boxOut[k]]

\* boxA.intersects(boxB)
CallIntersects ==
    /\ "intersects" \notin DOMAIN boxOut
    /\ boxOut' = Result("intersects", [val |-> intersects(boxA, boxB)])
    /\ UNCHANGED <<boxA, boxB, notBox>>

\* boxA.intersection(boxB)
CallIntersection ==
    /\ "intersection" \notin DOMAIN boxOut
    /\ boxOut' = Result("intersection", [val |-> intersection(boxA, boxB)])
    /\ UNCHANGED <<boxA, boxB, notBox>>

\* boxA.iou(boxB)
CallIou ==
    /\ "iou" \notin DOMAIN boxOut
    /\ boxOut' = Result("iou", [val |-> iou(boxA, boxB)])
    /\ UNCHANGED <<boxA, boxB, notBox>>

NextBox == CallIntersects \/ CallIntersection \/ CallIou

SpecBox == InitBox /\ [][NextBox]_vars

\* min <= max on both axes
WellFormed(b) == b.min_point.x <= b.max_point.x /\ b.min_point.y <= b.max_point.y

\* the point (x, y) lies in the closed rectangle b
Inside(x, y, b) ==
    /\ b.min_point.x <= x /\ x <= b.max_point.x
    /\ b.min_point.y <= y /\ y <= b.max_point.y

\* the two rectangles have a point in common (with integer corners a
\* non-empty overlap has integer corners, so a grid point decides it)
CommonPoint(a, b) ==
    \E x \in 0..MaxCoord, y \in 0..MaxCoord : Inside(x, y, a) /\ Inside(x, y, b)

\* the fraction lies in [0, 1]
InUnitInterval(r) ==
    IF r.den > 0 THEN 0 <= r.num /\ r.num <= r.den
                 ELSE r.den <= r.num /\ r.num <= 0

\* C7 as stated: iou is in [0.0, 1.0] for every pair of BoundingBox2D
\* values and 0.0 whenever the two boxes do not intersect.
C7_IouRangeAnyBoxes ==
    "iou" \in DOMAIN boxOut =>
        /\ InUnitInterval(boxOut.iou.val)
        /\ ~CommonPoint(boxA, boxB) => boxOut.iou.val.num = 0

\* C7 (amended): for every pair of well-formed boxes (min <= max on both
\* axes) iou is in [0.0, 1.0], and it is 0.0 whenever the two boxes do not
\* intersect.
C7_IouRangeWellFormed ==
    ("iou" \in DOMAIN boxOut /\ WellFormed(boxA) /\ WellFormed(boxB)) =>
        /\ InUnitInterval(boxOut.iou.val)
        /\ ~CommonPoint(boxA, boxB) => boxOut.iou.val.num = 0

\* iou was computed for two well-formed boxes that overlap in part
C7_Witness ==
    /\ "iou" \in DOMAIN boxOut
    /\ WellFormed(boxA) /\ WellFormed(boxB)
    /\ boxOut.iou.val.num > 0
    /\ boxOut.iou.val.num < boxOut.iou.val.den
    /\ boxA # boxB

\* a is contained in b
Contained(a, b) ==
    /\ b.min_point.x <= a.min_point.x /\ a.max_point.x <= b.max_point.x
    /\ b.min_point.y <= a.min_point.y /\ a.max_point.y <= b.max_point.y

\* well-formed boxes that share boundary points only
OnlyTouch(a, b) ==
    /\ WellFormed(a) /\ WellFormed(b)
    /\ CommonPoint(a, b)
    /\ \/ a.max_point.x = b.min_point.x
       \/ b.max_point.x = a.min_point.x
       \/ a.max_point.y = b.min_point.y
       \/ b.max_point.y = a.min_point.y

\* C8: intersection returns None exactly when intersects is False;
\* otherwise it returns the box from the componentwise max of the min
\* corners to the componentwise min of the max corners, which for
\* well-formed boxes is well-formed and contained in both.  Well-formed
\* boxes that only touch intersect, with a zero-area intersection.
C8_Intersection ==
    {"intersects", "intersection"} \subseteq DOMAIN boxOut =>
        LET hit == boxOut.intersects.val
            box == boxOut.intersection.val
        IN /\ IsNone(box) <=> (hit = FALSE)
           /\ ~IsNone(box) =>
                /\ box.min_point.x = Max(boxA.min_point.x, boxB.min_point.x)
                /\ box.min_point.y = Max(boxA.min_point.y, boxB.min_point.y)
                /\ box.max_point.x = Min(boxA.max_point.x, boxB.max_point.x)
                /\ box.max_point.y = Min(boxA.max_point.y, boxB.max_point.y)
           /\ (~IsNone(box) /\ WellFormed(boxA) /\ WellFormed(boxB)) =>
                /\ WellFormed(box)
                /\ Contained(box, boxA)
                /\ Contained(box, boxB)
           /\ (WellFormed(boxA) /\ WellFormed(boxB)) => (hit <=> CommonPoint(boxA, boxB))
           /\ OnlyTouch(boxA, boxB) =>
                /\ hit
                /\ ~IsNone(box)
                /\ (box.max_point.x - box.min_point.x) * (box.max_point.y - box.min_point.y) = 0

\* two boxes of positive area touching along an edge, both methods called
C8_Witness ==
    /\ {"intersects", "intersection"} \subseteq DOMAIN boxOut
    /\ OnlyTouch(boxA, boxB)
    /\ boxA.max_point.x = boxB.min_point.x
    /\ boxA.min_point.x < boxA.max_point.x /\ boxA.min_point.y < boxA.max_point.y
    /\ boxB.min_point.x < boxB.max_point.x /\ boxB.min_point.y < boxB.max_point.y
    /\ ~IsNone(boxOut.intersection.val)

-----------------------------------------------------------------------------
(* Binary floating point.  A float is [m, e], the number m * 2^e, with     *)
(* m = 0 or 2^(MantissaBits-1) <= m < 2^MantissaBits.  Every operation     *)
(* returns the exact result rounded to the nearest float, ties to even,    *)
(* as IEEE 754 arithmetic does; Python's float has 53 mantissa bits, the   *)
(* model keeps MantissaBits of them.  Exponents are unbounded (no          *)
(* overflow or underflow).                                                 *)

Pow2(k) == 2^k

FloatZero == [m |-> 0, e |-> 0]

RECURSIVE RoundRatio(_, _, _)
\* the float nearest to (n / d) * 2^e, for n >= 0 and d > 0
RoundRatio(n, d, e) ==
    IF n = 0 THEN FloatZero
    ELSE IF n >= d * Pow2(MantissaBits) THEN RoundRatio(n, 2 * d, e + 1)
    ELSE IF n < d * Pow2(MantissaBits - 1) THEN RoundRatio(2 * n, d, e - 1)
    ELSE LET q == n \div d
             r == n % d
             m == IF 2 * r > d \/ (2 * r = d /\ q % 2 = 1) THEN q + 1 ELSE q
         IN IF m = Pow2(MantissaBits)
            THEN [m |-> Pow2(MantissaBits - 1), e |-> e + 1]
            ELSE [m |-> m, e |-> e]

\* the float of a decimal literal n/d, and of an integer
FloatLit(n, d) == RoundRatio(n, d, 0)
FloatOf(k) == RoundRatio(k, 1, 0)

\* a * b and a / b
fmul(a, b) == RoundRatio(a.m * b.m, 1, a.e + b.e)
fdiv(a, b) == RoundRatio(a.m, b.m, a.e - b.e)

-----------------------------------------------------------------------------
(* data_models.Measurement.  A Measurement is a record of its model        *)
(* fields: a numeric field holds a float or None, an enum field holds      *)
(* [enum |-> value] or None, custom is a dict of floats.                   *)

NumericFields ==
    {"chest", "waist", "hip", "shoulder_width", "sleeve_length", "body_length",
     "inseam", "neck", "bust", "under_bust", "arm_length", "bicep", "wrist",
     "thigh", "calf", "ankle"}

\* MeasurementUnit
Units == {"cm", "in", "mm", "m"}

EnumVal(v) == [enum |-> v]

\* isinstance(value, (int, float)) and value is not None
IsNumber(v) == DOMAIN v = {"m", "e"}

\* convert_to: the table of conversion factors to centimeters
to_cm ==
    [u \in Units |->
        CASE u = "cm" -> FloatLit(1, 1)
          [] u = "mm" -> FloatLit(1, 10)
          [] u = "m"  -> FloatLit(100, 1)
          [] u = "in" -> FloatLit(254, 100)]

\* A conversion whose factor is upside down.
convert_to_inverted(self, target_unit) ==
    IF self.unit = EnumVal(target_unit)
    THEN [val |-> self, is_self |-> TRUE, self |-> self]
    ELSE LET factor == fdiv(to_cm[target_unit], to_cm[self.unit.enum])
             copied == [f \in DOMAIN self |->
                          IF IsNumber(self[f]) THEN fmul(self[f], factor) ELSE self[f]]
         IN [val |-> [copied EXCEPT
                        !.custom = [k \in DOMAIN self.custom |-> fmul(self.custom[k], factor)],
                        !.unit = EnumVal(target_unit)],
             is_self |-> FALSE, self |-> self]

\* Measurement.convert_to(target_unit): the returned Measurement, whether
\* it is the object self, and self after the call
convert_to(self, target_unit) ==
    IF self.unit = EnumVal(target_unit)
    THEN [val |-> self, is_self |-> TRUE, self |-> self]
    ELSE LET factor == fdiv(to_cm[self.unit.enum], to_cm[target_unit])
             \* model_copy(deep=True), then the loop over model_fields
             copied == [f \in DOMAIN self |->
                          IF IsNumber(self[f]) THEN fmul(self[f], factor) ELSE self[f]]
         IN [val |-> [copied EXCEPT
                        !.custom = [k \in DOMAIN self.custom |-> fmul(self.custom[k], factor)],
                        !.unit = EnumVal(target_unit)],
             is_self |-> FALSE, self |-> self]

\* a Measurement with the given chest, ankle, custom and unit; the other
\* measurements unset
Measurement(chest, ankle, custom, unit) ==
    [f \in NumericFields \cup {"unit", "gender", "size_category", "custom"} |->
        CASE f = "chest" -> chest
          [] f = "ankle" -> ankle
          [] f = "unit" -> EnumVal(unit)
          [] f = "gender" -> EnumVal("unisex")
          [] f = "custom" -> custom
          [] OTHER -> NoneVal]

\* Optional[float] with gt = 0
OptionalPositive == {NoneVal} \cup { FloatOf(k) : k \in 1..MaxValue }

\* Dict[str, float]
CustomDicts == {EmptyDict} \cup { [rise |-> FloatOf(k)] : k \in 0..MaxValue }

Measurements ==
    { Measurement(c, a, d, u) : c \in OptionalPositive, a \in OptionalPositive,
                                d \in CustomDicts, u \in Units }

InitMeasure == /\ EngineInit /\ GenIdle /\ DemoIdle /\ ApiIdle /\ ConcIdle
               /\ AreaIdle /\ BoxIdle /\ TypesIdle
               /\ meas \in Measurements
               /\ measOut = << >>

notMeasure == <<engineVars, genOut, demoVars, apiVars, concVars, areaVars, boxVars, typeVars>>

\* the Measurement the next convert_to is called on: meas, then each result
Current == IF measOut = << >> THEN meas ELSE measOut[Len(measOut)].result

\* result = Current.convert_to(target)
ConvertTo ==
    /\ Len(measOut) < MaxConversions
    /\ \E target \in Units :
        LET r == convert_to(Current, target)
        IN /\ measOut' = Append(measOut, [source |-> Current, target |-> target,
                                          result |-> r.val, is_self |-> r.is_self,
                                          self_after |-> r.self])
           /\ meas' = IF measOut = << >> THEN r.self ELSE meas
    /\ UNCHANGED notMeasure

NextMeasure == ConvertTo

SpecMeasure == InitMeasure /\ [][NextMeasure]_vars

\* the float b is within a relative error of 2^-(MantissaBits - 3) of a
Close(a, b) ==
    LET emin == Min(a.e, b.e)
        x == a.m * Pow2(a.e - emin)
        y == b.m * Pow2(b.e - emin)
    IN Abs(x - y) * Pow2(MantissaBits - 3) <= x

\* convert_to did what the claim says for one call
ConvertedAsStated(c) ==
    /\ c.self_after = c.source
    /\ IF c.source.unit.enum = c.target
       THEN c.is_self /\ c.result = c.source
       ELSE LET factor == fdiv(to_cm[c.source.unit.enum], to_cm[c.target])
            IN /\ ~c.is_self
               /\ c.result.unit = EnumVal(c.target)
               /\ DOMAIN c.result = DOMAIN c.source
               /\ \A f \in NumericFields :
                    IF IsNone(c.source[f]) THEN IsNone(c.result[f])
                    ELSE c.result[f] = fmul(c.source[f], factor)
               /\ DOMAIN c.result.custom = DOMAIN c.source.custom
               /\ \A k \in DOMAIN c.source.custom :
                    c.result.custom[k] = fmul(c.source.custom[k], factor)
               /\ c.result.gender = c.source.gender
               /\ c.result.size_category = c.source.size_category

\* positions k with calls k and k + 1 converting A -> B -> A
RoundTrips ==
    { k \in 1..(Len(measOut) - 1) :
        measOut[k + 1].target = measOut[k].source.unit.enum }

-----------------------------------------------------------------------------
(* common.Color.  A str is a sequence of one-character strings.  A channel *)
(* is the exact ratio [num, den] of the float the code computes; the range *)
(* test 0.0 <= value <= 1.0 has the same outcome on the float n / 255.0 as *)
(* on the ratio, since float division is monotone and exact at 0 and 1.    *)

Ratio(n, d) == [num |-> n, den |-> d]

\* Color.a default, and a = 1.0 in from_hex
One == Ratio(1, 1)

\* not 0.0 <= value <= 1.0, negated
InRange(v) == 0 <= v.num /\ v.num <= v.den

\* A validation that accepts every channel value.
Color_unchecked(r, g, b, a) == Ok([r |-> r, g |-> g, b |-> b, a |-> a])

\* Color(r, g, b, a): the dataclass constructor followed by __post_init__
Color(r, g, b, a) ==
    IF \A v \in {r, g, b, a} : InRange(v)
    THEN Ok([r |-> r, g |-> g, b |-> b, a |-> a])
    ELSE Raise("ValueError")

\* Color.from_dict(data)
Color_from_dict(data) ==
    IF ~({"r", "g", "b"} \subseteq DOMAIN data) THEN Raise("KeyError")
    ELSE Color(data["r"], data["g"], data["b"], DictGet(data, "a", One))

\* Color.from_rgb(r, g, b, a)
Color_from_rgb(r, g, b, a) ==
    Color(Ratio(r, 255), Ratio(g, 255), Ratio(b, 255), Ratio(a, 255))

HexDigits == <<"0", "1", "2", "3", "4", "5", "6", "7", "8", "9",
               "A", "B", "C", "D", "E", "F">>
LowerHexDigits == <<"0", "1", "2", "3", "4", "5", "6", "7", "8", "9",
                    "a", "b", "c", "d", "e", "f">>

IsHexDigit(c) == \E i \in 1..16 : HexDigits[i] = c \/ LowerHexDigits[i] = c
HexValue(c) == (CHOOSE i \in 1..16 : HexDigits[i] = c \/ LowerHexDigits[i] = c) - 1

\* str.lstrip(ch)
RECURSIVE lstrip(_, _)
lstrip(s, ch) == IF s # << >> /\ Head(s) = ch THEN lstrip(Tail(s), ch) ELSE s

\* str.rstrip(ch)
RECURSIVE rstrip(_, _)
rstrip(s, ch) ==
    IF s # << >> /\ s[Len(s)] = ch THEN rstrip(SubSeq(s, 1, Len(s) - 1), ch) ELSE s

\* the value of a string of hex digits
RECURSIVE DigitsValue(_)
DigitsValue(s) ==
    IF s = << >> THEN 0
    ELSE 16 * DigitsValue(SubSeq(s, 1, Len(s) - 1)) + HexValue(s[Len(s)])

\* int(s, 16) for strings without '_', 'x' and 'X': surrounding blanks are
\* dropped, one sign is allowed, and at least one digit must follow
int16(s) ==
    LET t == rstrip(lstrip(s, " "), " ")
        signed == t # << >> /\ Head(t) \in {"+", "-"}
        digits == IF signed THEN Tail(t) ELSE t
    IN IF digits = << >> \/ \E i \in 1..Len(digits) : ~IsHexDigit(digits[i])
       THEN Raise("ValueError")
       ELSE Ok(IF signed /\ Head(t) = "-" THEN 0 - DigitsValue(digits)
               ELSE DigitsValue(digits))

\* int(...) / 255.0
Over255(x) == IF x.ok THEN Ok(Ratio(x.val, 255)) ELSE x

\* Color.from_hex(hex_string)
Color_from_hex(hex_string) ==
    LET h == lstrip(hex_string, "#")
        twice(i) == Over255(int16(<<h[i], h[i]>>))
        pair(i) == Over255(int16(SubSeq(h, i, i + 1)))
        build(r, g, b, a) ==
            IF \E c \in {r, g, b, a} : ~c.ok THEN Raise("ValueError")
            ELSE Color(r.val, g.val, b.val, a.val)
    IN CASE Len(h) = 3 -> build(twice(1), twice(2), twice(3), Ok(One))
         [] Len(h) = 6 -> build(pair(1), pair(3), pair(5), Ok(One))
         [] Len(h) = 8 -> build(pair(1), pair(3), pair(5), pair(7))
         [] OTHER -> Raise("ValueError")

\* characters hex color strings are made of: two digits and a sign
HexChars == {"0", "F", "+"}

RECURSIVE Hashes(_)
Hashes(k) == IF k = 0 THEN << >> ELSE <<"#">> \o Hashes(k - 1)

HexStrings ==
    { Hashes(k) \o body : k \in 0..MaxHashes,
                          body \in UNION { [1..n -> HexChars] : n \in 0..MaxHexLen } }

\* channel values: -0.5, 0.0, 0.5, 1.0, 1.5
Channels == { Ratio(n, 2) : n \in -1..3 }

ColorDicts ==
    LET rs == Channels
        gs == {Ratio(1, 2), Ratio(3, 2)}
    IN { [r |-> r, g |-> g, b |-> b, a |-> a] : r \in rs, g \in gs, b \in gs, a \in rs }
       \cup { [r |-> r, g |-> g, b |-> b] : r \in rs, g \in gs, b \in gs }
       \cup { [r |-> r, g |-> g] : r \in rs, g \in gs }

Bytes == {-1, 0, 255, MaxByte}

InitColor ==
    /\ EngineInit /\ GenIdle /\ DemoIdle /\ ApiIdle /\ ConcIdle
    /\ AreaIdle /\ BoxIdle /\ MeasIdle
    /\ calls = << >>
    /\ \/ \E s \in HexStrings : subject = [op |-> "from_hex", arg |-> s]
       \/ \E d \in ColorDicts : subject = [op |-> "from_dict", arg |-> d]
       \/ \E r, g, b, a \in Bytes :
            subject = [op |-> "from_rgb", arg |-> [r |-> r, g |-> g, b |-> b, a |-> a]]
       \/ \E r, g, b, a \in Channels :
            subject = [op |-> "Color", arg |-> [r |-> r, g |-> g, b |-> b, a |-> a]]

notTypes == <<engineVars, genOut, demoVars, apiVars, concVars, areaVars, boxVars,
              measVars>>

\* the call described by subject returns or raises
Called(op, result) ==
    /\ subject.op = op
    /\ calls = << >>
    /\ calls' = <<[op |-> op, arg |-> subject.arg, result |-> result]>>
    /\ UNCHANGED <<subject, notTypes>>

CallColor ==
    Called("Color", Color(subject.arg.r, subject.arg.g, subject.arg.b, subject.arg.a))
CallColorFromDict == Called("from_dict", Color_from_dict(subject.arg))
CallColorFromRgb ==
    Called("from_rgb", Color_from_rgb(subject.arg.r, subject.arg.g, subject.arg.b,
                                      subject.arg.a))
CallColorFromHex == Called("from_hex", Color_from_hex(subject.arg))

NextColor == CallColor \/ CallColorFromDict \/ CallColorFromRgb \/ CallColorFromHex

SpecColor == InitColor /\ [][NextColor]_vars

RatioEq(a, b) == a.num * b.den = b.num * a.den

\* what C11 says from_hex returns for the string s
HexAsStated(s) ==
    LET body == IF s # << >> /\ Head(s) = "#" THEN Tail(s) ELSE s
        byte(i) == 16 * HexValue(body[i]) + HexValue(body[i + 1])
        dbl(i) == 17 * HexValue(body[i])
    IN IF \E i \in 1..Len(body) : ~IsHexDigit(body[i]) THEN Raise("ValueError")
       ELSE CASE Len(body) = 3 -> Ok([r |-> dbl(1), g |-> dbl(2), b |-> dbl(3), a |-> 255])
              [] Len(body) = 6 -> Ok([r |-> byte(1), g |-> byte(3), b |-> byte(5), a |-> 255])
              [] Len(body) = 8 -> Ok([r |-> byte(1), g |-> byte(3), b |-> byte(5),
                                      a |-> byte(7)])
              [] OTHER -> Raise("ValueError")

\* C11: from_hex accepts exactly #RGB, #RRGGBB and #RRGGBBAA with the '#'
\* optional, each channel being its byte value over 255 (a 3-digit string
\* doubles its digits, alpha is 1.0 when absent); a string of another
\* length or with a non-hex digit raises ValueError.
C11_FromHexFormats ==
    \A i \in 1..Len(calls) :
        calls[i].op = "from_hex" =>
            LET want == HexAsStated(calls[i].arg)
                got == calls[i].result
            IN IF want.ok
               THEN /\ got.ok
                    /\ \A c \in {"r", "g", "b", "a"} :
                         RatioEq(got.val[c], Ratio(want.val[c], 255))
               ELSE got = Raise("ValueError")

\* every argument that is a channel of the attempted Color, as a ratio
ChannelsAttempted(c) ==
    CASE c.op = "Color" -> { c.arg[k] : k \in DOMAIN c.arg }
      [] c.op = "from_dict" ->
            IF {"r", "g", "b"} \subseteq DOMAIN c.arg
            THEN { c.arg[k] : k \in DOMAIN c.arg } ELSE {}
      [] c.op = "from_rgb" -> { Ratio(c.arg[k], 255) : k \in DOMAIN c.arg }
      [] OTHER -> {}

\* C12: a Color that was constructed -- directly or by from_dict, from_hex
\* or from_rgb -- has r, g, b and a within [0.0, 1.0]; an attempt with a
\* channel outside that range raises ValueError.
C12_ChannelsInRange ==
    \A i \in 1..Len(calls) :
        /\ calls[i].result.ok =>
             \A c \in {"r", "g", "b", "a"} : InRange(calls[i].result.val[c])
        /\ (\E v \in ChannelsAttempted(calls[i]) : ~InRange(v)) =>
             calls[i].result = Raise("ValueError")

\* from_rgb was called with a red component above 255 and raised
C12_Witness ==
    /\ Len(calls) = 1
    /\ calls[1].op = "from_rgb"
    /\ calls[1].arg.r > 255
    /\ calls[1].arg.g = 0
    /\ calls[1].result = Raise("ValueError")

-----------------------------------------------------------------------------
(* export.CADFile.validate.  The object is a record of the fields validate *)
(* reads or writes; filepath, the format's value and pattern_id are        *)
(* strings (sequences of characters), content is None or bytes.            *)

UpperLetters == <<"A", "B", "C", "D", "E", "F", "G", "H", "I", "J", "K", "L", "M",
                  "N", "O", "P", "Q", "R", "S", "T", "U", "V", "W", "X", "Y", "Z">>
LowerLetters == <<"a", "b", "c", "d", "e", "f", "g", "h", "i", "j", "k", "l", "m",
                  "n", "o", "p", "q", "r", "s", "t", "u", "v", "w", "x", "y", "z">>

\* str.lower(), one character
LowerChar(c) ==
    IF \E i \in 1..26 : UpperLetters[i] = c
    THEN LowerLetters[CHOOSE i \in 1..26 : UpperLetters[i] = c]
    ELSE c

\* str.lower()
lower(s) == [i \in 1..Len(s) |-> LowerChar(s[i])]

\* str.endswith(suffix)
endswith(s, suffix) ==
    /\ Len(suffix) <= Len(s)
    /\ SubSeq(s, Len(s) - Len(suffix) + 1, Len(s)) = suffix

\* ExportFormat.DXF.value, ExportFormat.SVG.value
FormatDXF == <<"d", "x", "f">>
FormatSVG == <<"s", "v", "g">>

ErrExtension == "File extension mismatch"
ErrContent   == "File content is empty"
ErrPatternId == "Pattern ID is required in metadata"

\* CADFile.is_valid
is_valid(self) == self.validated /\ self.validation_errors = << >>

\* A validate that keeps the errors of earlier calls.
validate_accumulating(self) ==
    LET expected_ext == <<".">> \o self.format
        e1 == IF ~endswith(lower(self.filepath), expected_ext)
              THEN <<ErrExtension>> ELSE << >>
        e2 == IF IsNone(self.content) THEN <<ErrContent>> ELSE << >>
        e3 == IF self.pattern_id = << >> THEN <<ErrPatternId>> ELSE << >>
        after == [self EXCEPT !.validation_errors = self.validation_errors \o e1 \o e2 \o e3,
                              !.validated = TRUE]
    IN [val |-> is_valid(after), self |-> after]

\* CADFile.validate(): the returned bool and self after the call
validate(self) ==
    LET expected_ext == <<".">> \o self.format
        e1 == IF ~endswith(lower(self.filepath), expected_ext)
              THEN <<ErrExtension>> ELSE << >>
        e2 == IF IsNone(self.content) THEN <<ErrContent>> ELSE << >>
        e3 == IF self.pattern_id = << >> THEN <<ErrPatternId>> ELSE << >>
        after == [self EXCEPT !.validation_errors = e1 \o e2 \o e3,
                              !.validated = TRUE]
    IN [val |-> is_valid(after), self |-> after]

PathChars == {".", "d", "x", "f", "F"}
Paths == UNION { [1..n -> PathChars] : n \in 0..MaxPathLen }

\* bytes
SomeBytes == [bytes |-> <<0>>]

\* CADFile(filepath, format, options, metadata, content)
CADFile(filepath, format, pattern_id, content) ==
    [filepath |-> filepath, format |-> format, pattern_id |-> pattern_id,
     content |-> content, validated |-> FALSE, validation_errors |-> << >>]

CADFiles ==
    { CADFile(p, f, i, c) : p \in Paths, f \in {FormatDXF, FormatSVG},
                            i \in {<< >>, <<"p">>}, c \in {NoneVal, SomeBytes} }

InitCAD ==
    /\ EngineInit /\ GenIdle /\ DemoIdle /\ ApiIdle /\ ConcIdle
    /\ AreaIdle /\ BoxIdle /\ MeasIdle
    /\ subject \in CADFiles
    /\ calls = << >>

\* result = cad_file.validate(); a caller makes two calls
Validate ==
    /\ Cardinality({ i \in 1..Len(calls) : calls[i].op = "validate" }) < 2
    /\ LET r == validate(subject)
       IN /\ subject' = r.self
          /\ calls' = Append(calls, [op |-> "validate", before |-> subject,
                                     after |-> r.self, result |-> r.val])
    /\ UNCHANGED notTypes

\* cad_file.content = b"..." between two calls of validate
SetContent ==
    /\ Len(calls) = 1
    /\ IsNone(subject.content)
    /\ subject' = [subject EXCEPT !.content = SomeBytes]
    /\ calls' = Append(calls, [op |-> "set_content", before |-> subject,
                               after |-> subject', result |-> FALSE])
    /\ UNCHANGED notTypes

NextCAD == Validate \/ SetContent

SpecCAD == InitCAD /\ [][NextCAD]_vars

\* s ends with suffix, letter case ignored
EndsWithIgnoringCase(s, suffix) ==
    /\ Len(suffix) <= Len(s)
    /\ \A i \in 1..Len(suffix) :
         LowerChar(s[Len(s) - Len(suffix) + i]) = LowerChar(suffix[i])

\* the failed checks of a file, in the order validate makes them
FailedChecks(f) ==
    (IF EndsWithIgnoringCase(f.filepath, <<".">> \o f.format) THEN << >> ELSE <<ErrExtension>>)
    \o (IF IsNone(f.content) THEN <<ErrContent>> ELSE << >>)
    \o (IF f.pattern_id # << >> THEN << >> ELSE <<ErrPatternId>>)

\* C13: validate() returns True exactly for a valid file (extension matches
\* the format ignoring case, content not None, pattern_id non-empty); after
\* a call validated is True and validation_errors has one message per failed
\* check of that call only, so two calls in a row agree.
C13_Validate ==
    /\ \A i \in 1..Len(calls) :
        calls[i].op = "validate" =>
            /\ calls[i].result = (FailedChecks(calls[i].before) = << >>)
            /\ calls[i].after.validated
            /\ calls[i].after.validation_errors = FailedChecks(calls[i].before)
            /\ calls[i].after = [calls[i].before EXCEPT
                    !.validated = TRUE,
                    !.validation_errors = calls[i].after.validation_errors]
    /\ \A i \in 1..(Len(calls) - 1) :
        calls[i].op = "validate" /\ calls[i + 1].op = "validate" =>
            /\ calls[i + 1].result = calls[i].result
            /\ calls[i + 1].after.validation_errors = calls[i].after.validation_errors

\* a file named .DXF of format dxf without content was validated twice in a
\* row, with one error each time
C13_Witness ==
    /\ Len(calls) = 2
    /\ calls[1].op = "validate" /\ calls[2].op = "validate"
    /\ calls[1].before.filepath = <<".", "d", "x", "F">>
    /\ calls[1].before.format = FormatDXF
    /\ calls[2].result = FALSE
    /\ calls[2].after.validation_errors = <<ErrContent>>

-----------------------------------------------------------------------------
(* pattern.Pattern2D and the classes it is made of.  An object is a record *)
(* with a cls field; its dict form has the keys to_dict writes.  An enum   *)
(* member is EnumVal(value), an Optional[str] is None or Str(text), a      *)
(* List is a sequence.                                                     *)

Str(text) == [str |-> text]

\* bool(v) of None or a dict
Truthy(v) == ~IsNone(v) /\ DOMAIN v # {}

\* data[k] for every k in keys does not raise KeyError
HasKeys(data, keys) == keys \subseteq DOMAIN data

\* [f(x) for x in xs] where f may raise: the list, or the first exception
MapOk(rs) ==
    IF \A i \in 1..Len(rs) : rs[i].ok
    THEN Ok([i \in 1..Len(rs) |-> rs[i].val])
    ELSE rs[CHOOSE i \in 1..Len(rs) : ~rs[i].ok /\ \A j \in 1..(i - 1) : rs[j].ok]

\* no result of the sequence is an exception
AllOk(rs) == \A i \in 1..Len(rs) : rs[i].ok

\* the first exception among results evaluated in order, or the value
FirstRaise(rs, val) ==
    IF \A i \in 1..Len(rs) : rs[i].ok THEN Ok(val)
    ELSE rs[CHOOSE i \in 1..Len(rs) : ~rs[i].ok /\ \A j \in 1..(i - 1) : rs[j].ok]

\* Enum(value) for an enum with the given values
EnumOf(values, v) == IF v \in values THEN Ok(EnumVal(v)) ELSE Raise("ValueError")

PatternPieceTypes == {"front", "back", "sleeve", "collar", "cuff", "pocket", "facing",
                      "lining", "interfacing", "custom"}
SeamTypes == {"plain", "french", "flat_fell", "overlock", "topstitch", "zigzag", "blind"}
NotchTypes == {"single", "double", "triple", "dot", "cross", "buttonhole", "button",
               "pleat"}

\* common.Point2D
Point2D(x, y) == [cls |-> "Point2D", x |-> x, y |-> y]
Point2D_to_dict(self) == [x |-> self.x, y |-> self.y]
Point2D_from_dict(data) ==
    IF ~HasKeys(data, {"x", "y"}) THEN Raise("KeyError")
    ELSE Ok(Point2D(data["x"], data["y"]))

\* common.Transform2D
Transform2D(translation, rotation, scale) ==
    [cls |-> "Transform2D", translation |-> translation, rotation |-> rotation,
     scale |-> scale]
Transform2D_identity == Transform2D(Point2D(0, 0), 0, Point2D(1, 1))
Transform2D_to_dict(self) ==
    [translation |-> Point2D_to_dict(self.translation), rotation |-> self.rotation,
     scale |-> Point2D_to_dict(self.scale)]
Transform2D_from_dict(data) ==
    IF ~HasKeys(data, {"translation", "rotation", "scale"}) THEN Raise("KeyError")
    ELSE LET t == Point2D_from_dict(data["translation"])
             sc == Point2D_from_dict(data["scale"])
         IN IF t.ok /\ sc.ok THEN Ok(Transform2D(t.val, data["rotation"], sc.val))
            ELSE FirstRaise(<<t, sc>>, NoneVal)

\* the default PatternPiece.from_dict passes when "transform" is missing
MatrixDict == [matrix |-> <<<<1, 0, 0>>, <<0, 1, 0>>, <<0, 0, 1>>>>]

\* pattern.Contour
Contour(points, closed, label) ==
    IF Len(points) < 2 THEN Raise("ValueError")
    ELSE Ok([cls |-> "Contour", points |-> points, closed |-> closed, label |-> label])
Contour_to_dict(self) ==
    [points |-> [i \in 1..Len(self.points) |-> Point2D_to_dict(self.points[i])],
     closed |-> self.closed, label |-> self.label]
Contour_from_dict(data) ==
    IF ~HasKeys(data, {"points"}) THEN Raise("KeyError")
    ELSE LET ps == MapOk([i \in 1..Len(data["points"]) |->
                            Point2D_from_dict(data["points"][i])])
         IN IF ~ps.ok THEN ps
            ELSE Contour(ps.val, DictGet(data, "closed", TRUE),
                         DictGet(data, "label", NoneVal))

\* pattern.Seam
Seam(id, piece1_id, piece2_id, edge1_indices, edge2_indices, type, allowance, metadata) ==
    IF Len(edge1_indices) # Len(edge2_indices) THEN Raise("ValueError")
    ELSE IF allowance < 0 THEN Raise("ValueError")
    ELSE Ok([cls |-> "Seam", id |-> id, piece1_id |-> piece1_id, piece2_id |-> piece2_id,
             edge1_indices |-> edge1_indices, edge2_indices |-> edge2_indices,
             type |-> type, allowance |-> allowance, metadata |-> metadata])
Seam_to_dict(self) ==
    [id |-> self.id, piece1_id |-> self.piece1_id, piece2_id |-> self.piece2_id,
     edge1_indices |-> self.edge1_indices, edge2_indices |-> self.edge2_indices,
     type |-> self.type.enum, allowance |-> self.allowance, metadata |-> self.metadata]
Seam_from_dict(data) ==
    IF ~HasKeys(data, {"id", "piece1_id", "piece2_id", "edge1_indices", "edge2_indices"})
    THEN Raise("KeyError")
    ELSE LET t == EnumOf(SeamTypes, DictGet(data, "type", "plain"))
         IN IF ~t.ok THEN t
            ELSE Seam(data["id"], data["piece1_id"], data["piece2_id"],
                      data["edge1_indices"], data["edge2_indices"], t.val,
                      DictGet(data, "allowance", 1), DictGet(data, "metadata", EmptyDict))

\* pattern.Notch
Notch(id, position, type, label) ==
    [cls |-> "Notch", id |-> id, position |-> position, type |-> type, label |-> label]
Notch_to_dict(self) ==
    [id |-> self.id, position |-> Point2D_to_dict(self.position),
     type |-> self.type.enum, label |-> self.label]
Notch_from_dict(data) ==
    IF ~HasKeys(data, {"id", "position", "type"}) THEN Raise("KeyError")
    ELSE LET pos == Point2D_from_dict(data["position"])
             t == EnumOf(NotchTypes, data["type"])
         IN IF pos.ok /\ t.ok
            THEN Ok(Notch(data["id"], pos.val, t.val, DictGet(data, "label", NoneVal)))
            ELSE FirstRaise(<<pos, t>>, NoneVal)

\* pattern.GrainLine
GrainLine(start, end, label) ==
    [cls |-> "GrainLine", start |-> start, end |-> end, label |-> label]
GrainLine_to_dict(self) ==
    [start |-> Point2D_to_dict(self.start), end |-> Point2D_to_dict(self.end),
     label |-> self.label]
GrainLine_from_dict(data) ==
    IF ~HasKeys(data, {"start", "end"}) THEN Raise("KeyError")
    ELSE LET st == Point2D_from_dict(data["start"])
             en == Point2D_from_dict(data["end"])
         IN IF st.ok /\ en.ok
            THEN Ok(GrainLine(st.val, en.val, DictGet(data, "label", Str("GRAIN"))))
            ELSE FirstRaise(<<st, en>>, NoneVal)

\* pattern.PatternPiece
PatternPiece(id, name, type, outer_contour, inner_contours, grain_line, notches, transform, metadata) ==
    [cls |-> "PatternPiece", id |-> id, name |-> name, type |-> type,
     outer_contour |-> outer_contour, inner_contours |-> inner_contours,
     grain_line |-> grain_line, notches |-> notches, transform |-> transform,
     metadata |-> metadata]

PatternPiece_to_dict(self) ==
    [id |-> self.id, name |-> self.name, type |-> self.type.enum,
     outer_contour |-> Contour_to_dict(self.outer_contour),
     inner_contours |-> [i \in 1..Len(self.inner_contours) |->
                            Contour_to_dict(self.inner_contours[i])],
     grain_line |-> IF IsNone(self.grain_line) THEN NoneVal
                    ELSE GrainLine_to_dict(self.grain_line),
     notches |-> [i \in 1..Len(self.notches) |-> Notch_to_dict(self.notches[i])],
     transform |-> Transform2D_to_dict(self.transform),
     metadata |-> self.metadata]

\* A from_dict that never reads "grain_line".
PatternPiece_from_dict_no_grain(data) ==
    IF ~HasKeys(data, {"id", "name", "type", "outer_contour"}) THEN Raise("KeyError")
    ELSE LET t == EnumOf(PatternPieceTypes, data["type"])
             outer == Contour_from_dict(data["outer_contour"])
             inner == MapOk([i \in 1..Len(DictGet(data, "inner_contours", << >>)) |->
                               Contour_from_dict(data["inner_contours"][i])])
             notches == MapOk([i \in 1..Len(DictGet(data, "notches", << >>)) |->
                                 Notch_from_dict(data["notches"][i])])
             transform == Transform2D_from_dict(DictGet(data, "transform", MatrixDict))
         IN IF AllOk(<<t, outer, inner, notches, transform>>)
            THEN Ok(PatternPiece(data["id"], data["name"], t.val, outer.val, inner.val,
                                 NoneVal, notches.val, transform.val,
                                 DictGet(data, "metadata", EmptyDict)))
            ELSE FirstRaise(<<t, outer, inner, notches, transform>>, NoneVal)

PatternPiece_from_dict(data) ==
    IF ~HasKeys(data, {"id", "name", "type", "outer_contour"}) THEN Raise("KeyError")
    ELSE LET t == EnumOf(PatternPieceTypes, data["type"])
             outer == Contour_from_dict(data["outer_contour"])
             inner == MapOk([i \in 1..Len(DictGet(data, "inner_contours", << >>)) |->
                               Contour_from_dict(data["inner_contours"][i])])
             grain == IF Truthy(DictGet(data, "grain_line", NoneVal))
                      THEN GrainLine_from_dict(data["grain_line"]) ELSE Ok(NoneVal)
             notches == MapOk([i \in 1..Len(DictGet(data, "notches", << >>)) |->
                                 Notch_from_dict(data["notches"][i])])
             transform == Transform2D_from_dict(DictGet(data, "transform", MatrixDict))
         IN IF AllOk(<<t, outer, inner, grain, notches, transform>>)
            THEN Ok(PatternPiece(data["id"], data["name"], t.val, outer.val, inner.val,
                                 grain.val, notches.val, transform.val,
                                 DictGet(data, "metadata", EmptyDict)))
            ELSE FirstRaise(<<t, outer, inner, grain, notches, transform>>, NoneVal)

\* A validation that checks piece1_id of each seam only.
Pattern2D_piece1_only(id, name, design_id, pieces, seams, format, metadata, version) ==
    LET piece_ids == { pieces[i].id : i \in 1..Len(pieces) }
    IN IF pieces = << >> THEN Raise("ValueError")
       ELSE IF \E i \in 1..Len(seams) : seams[i].piece1_id \notin piece_ids
       THEN Raise("ValueError")
       ELSE Ok([cls |-> "Pattern2D", id |-> id, name |-> name, design_id |-> design_id,
                pieces |-> pieces, seams |-> seams, format |-> format,
                metadata |-> metadata, version |-> version])

\* pattern.Pattern2D: the dataclass constructor followed by __post_init__
Pattern2D(id, name, design_id, pieces, seams, format, metadata, version) ==
    LET piece_ids == { pieces[i].id : i \in 1..Len(pieces) }
    IN IF pieces = << >> THEN Raise("ValueError")
       ELSE IF \E i \in 1..Len(seams) :
                 seams[i].piece1_id \notin piece_ids \/ seams[i].piece2_id \notin piece_ids
       THEN Raise("ValueError")
       ELSE Ok([cls |-> "Pattern2D", id |-> id, name |-> name, design_id |-> design_id,
                pieces |-> pieces, seams |-> seams, format |-> format,
                metadata |-> metadata, version |-> version])

Pattern2D_to_dict(self) ==
    [id |-> self.id, name |-> self.name, design_id |-> self.design_id,
     pieces |-> [i \in 1..Len(self.pieces) |-> PatternPiece_to_dict(self.pieces[i])],
     seams |-> [i \in 1..Len(self.seams) |-> Seam_to_dict(self.seams[i])],
     format |-> self.format, metadata |-> self.metadata, version |-> self.version]

Pattern2D_from_dict(data) ==
    IF ~HasKeys(data, {"id", "name", "pieces"}) THEN Raise("KeyError")
    ELSE LET pieces == MapOk([i \in 1..Len(data["pieces"]) |->
                                PatternPiece_from_dict(data["pieces"][i])])
             seams == MapOk([i \in 1..Len(DictGet(data, "seams", << >>)) |->
                               Seam_from_dict(data["seams"][i])])
         IN IF pieces.ok /\ seams.ok
            THEN Pattern2D(data["id"], data["name"], DictGet(data, "design_id", NoneVal),
                           pieces.val, seams.val, DictGet(data, "format", "JSON"),
                           DictGet(data, "metadata", EmptyDict),
                           DictGet(data, "version", "1.0"))
            ELSE FirstRaise(<<pieces, seams>>, NoneVal)

\* the objects patterns are built from
P00 == Point2D(0, 0)
P10 == Point2D(1, 0)
PlainContour == [cls |-> "Contour", points |-> <<P00, P10>>, closed |-> TRUE,
                 label |-> NoneVal]
OpenContour == [cls |-> "Contour", points |-> <<P10, P00, P10>>, closed |-> FALSE,
                label |-> Str("dart")]
SomeGrainLine == GrainLine(P00, P10, Str("GRAIN"))
SomeNotch == Notch("n1", P10, EnumVal("double"), NoneVal)
SomeTransform == Transform2D(P10, 90, Point2D(2, 2))

PlainPiece(id) ==
    PatternPiece(id, "piece", EnumVal("front"), PlainContour, << >>, NoneVal, << >>,
                 Transform2D_identity, EmptyDict)
GrainPiece(id) ==
    PatternPiece(id, "piece", EnumVal("sleeve"), PlainContour, << >>, SomeGrainLine,
                 << >>, Transform2D_identity, EmptyDict)
RichPiece(id) ==
    PatternPiece(id, "piece", EnumVal("back"), PlainContour, <<OpenContour>>,
                 SomeGrainLine, <<SomeNotch>>, SomeTransform, [cut_on_fold |-> TRUE])

Pieces == {PlainPiece("a"), RichPiece("a"), PlainPiece("b"), GrainPiece("b")}

Seams ==
    { [cls |-> "Seam", id |-> "s1", piece1_id |-> i, piece2_id |-> j,
       edge1_indices |-> <<0, 1>>, edge2_indices |-> <<1, 0>>,
       type |-> EnumVal("french"), allowance |-> 1, metadata |-> EmptyDict] :
        i \in {"a", "c"}, j \in {"a", "b"} }

\* how the caller attempts the construction: from objects, from the dict
\* of those objects, or from a dict lacking a key or with a one-point contour
Forms == {"objects", "dict", "dict_no_seams", "dict_no_transform", "dict_short_contour"}

\* the dict a caller of from_dict passes
PatternData(pieces, seams, form) ==
    LET piece(i) ==
            LET d == PatternPiece_to_dict(pieces[i])
            IN CASE form = "dict_no_transform" ->
                      [k \in DOMAIN d \ {"transform"} |-> d[k]]
                 [] form = "dict_short_contour" /\ i = 1 ->
                      [d EXCEPT !.outer_contour.points = <<Point2D_to_dict(P00)>>]
                 [] OTHER -> d
        full == [id |-> "p1", name |-> "shirt", design_id |-> NoneVal,
                 pieces |-> [i \in 1..Len(pieces) |-> piece(i)],
                 seams |-> [i \in 1..Len(seams) |-> Seam_to_dict(seams[i])],
                 format |-> "JSON", metadata |-> EmptyDict, version |-> "1.0"]
    IN IF form = "dict_no_seams" THEN [k \in DOMAIN full \ {"seams"} |-> full[k]]
       ELSE full

InitPattern ==
    /\ EngineInit /\ GenIdle /\ DemoIdle /\ ApiIdle /\ ConcIdle
    /\ AreaIdle /\ BoxIdle /\ MeasIdle
    /\ calls = << >>
    /\ \E pieces \in UNION { [1..n -> Pieces] : n \in 0..MaxPieces },
          seams \in UNION { [1..n -> Seams] : n \in 0..MaxSeams },
          form \in Forms :
        /\ form = "dict_no_seams" => seams = << >>
        /\ subject = [pieces |-> pieces, seams |-> seams, form |-> form]

\* p = Pattern2D(id, name, design_id, pieces, seams)
ConstructPattern ==
    /\ subject.form = "objects"
    /\ calls = << >>
    /\ calls' = <<[op |-> "Pattern2D", form |-> subject.form,
                   arg |-> [pieces |-> subject.pieces, seams |-> subject.seams],
                   result |-> Pattern2D("p1", "shirt", NoneVal, subject.pieces,
                                        subject.seams, "JSON", EmptyDict, "1.0")]>>
    /\ UNCHANGED <<subject, notTypes>>

\* p = Pattern2D.from_dict(data)
PatternFromDict ==
    /\ subject.form # "objects"
    /\ calls = << >>
    /\ LET data == PatternData(subject.pieces, subject.seams, subject.form)
       IN calls' = <<[op |-> "from_dict", form |-> subject.form, arg |-> data,
                      result |-> Pattern2D_from_dict(data)]>>
    /\ UNCHANGED <<subject, notTypes>>

\* q = Pattern2D.from_dict(p.to_dict()) for the constructed p
PatternRoundTrip ==
    /\ Len(calls) = 1
    /\ calls[1].op = "Pattern2D"
    /\ calls[1].result.ok
    /\ LET p == calls[1].result.val
       IN calls' = Append(calls, [op |-> "round_trip", form |-> "dict", arg |-> p,
                                  result |-> Pattern2D_from_dict(Pattern2D_to_dict(p))])
    /\ UNCHANGED <<subject, notTypes>>

NextPattern == ConstructPattern \/ PatternFromDict \/ PatternRoundTrip

SpecPattern == InitPattern /\ [][NextPattern]_vars

\* ids of the pieces of a Pattern2D, or of the pieces given to build one
PieceIds(p) == { p.pieces[i].id : i \in 1..Len(p.pieces) }

\* no piece, or a seam whose piece1_id or piece2_id is no piece's id
Unsound(p) ==
    LET seams == DictGet(p, "seams", << >>)
    IN \/ p.pieces = << >>
       \/ \E i \in 1..Len(seams) :
            seams[i].piece1_id \notin PieceIds(p) \/ seams[i].piece2_id \notin PieceIds(p)

\* C14: a constructed Pattern2D, direct or through from_dict, has a piece
\* and only seams between its pieces; construction with no piece or with a
\* seam to an unknown piece raises ValueError.
C14_PiecesAndSeams ==
    \A i \in 1..Len(calls) :
        calls[i].op \in {"Pattern2D", "from_dict"} =>
            /\ calls[i].result.ok => ~Unsound(calls[i].result.val)
            /\ Unsound(calls[i].arg) => ~calls[i].result.ok
            /\ Unsound(calls[i].arg) /\ calls[i].form \in {"objects", "dict", "dict_no_seams"}
                 => calls[i].result = Raise("ValueError")

\* a direct construction with piece a only and a seam from a to b raised
C14_Witness ==
    /\ Len(calls) = 1
    /\ calls[1].op = "Pattern2D"
    /\ PieceIds(calls[1].arg) = {"a"}
    /\ Len(calls[1].arg.seams) = 1
    /\ calls[1].arg.seams[1].piece1_id = "a"
    /\ calls[1].arg.seams[1].piece2_id = "b"
    /\ calls[1].result = Raise("ValueError")

\* C15: Pattern2D.from_dict(p.to_dict()) is equal to p for every valid p.
C15_RoundTrip ==
    \A i \in 1..Len(calls) :
        calls[i].op = "round_trip" =>
            calls[i].result.ok /\ calls[i].result.val = calls[i].arg

\* a pattern of two pieces, one with inner contour, grain line, notch and
\* transform, joined by a seam, went through to_dict and from_dict
C15_Witness ==
    /\ Len(calls) = 2
    /\ calls[2].op = "round_trip"
    /\ calls[2].arg.pieces = <<RichPiece("a"), GrainPiece("b")>>
    /\ Len(calls[2].arg.seams) = 1
    /\ calls[2].result.ok
    /\ Pattern2D_to_dict(calls[2].arg) # calls[2].arg

-----------------------------------------------------------------------------
(* data_models.LayoutResult.  pydantic validates the fields in the order   *)
(* of their definition: the type and the Field constraints first, then the *)
(* field's validators, which see the fields validated before in `values`.  *)
(* A missing required field or a failed constraint makes the construction  *)
(* raise ValidationError.                                                  *)

\* a - b for floats a >= b
fsub(a, b) ==
    LET emin == Min(a.e, b.e)
    IN RoundRatio(a.m * Pow2(a.e - emin) - b.m * Pow2(b.e - emin), 1, emin)

\* a <= b for floats
fle(a, b) ==
    LET emin == Min(a.e, b.e)
    IN a.m * Pow2(a.e - emin) <= b.m * Pow2(b.e - emin)

\* A validator that keeps the value the caller supplied.
calculate_waste_supplied(v, values) == v

\* LayoutResult.calculate_waste(cls, v, values)
calculate_waste(v, values) ==
    IF "utilization_rate" \in DOMAIN values
    THEN fmul(fsub(FloatOf(1), values["utilization_rate"]), FloatOf(100))
    ELSE v

\* LayoutResult(utilization_rate=u, waste_percentage=w, ...), the other
\* fields being valid; w is None when the argument is not given
LayoutResult(u, w) ==
    LET u_ok == fle(FloatOf(0), u) /\ fle(u, FloatOf(1))
        values == IF u_ok THEN [utilization_rate |-> u] ELSE EmptyDict
        w_ok == ~IsNone(w) /\ fle(FloatOf(0), w) /\ fle(w, FloatOf(100))
    IN IF u_ok /\ w_ok
       THEN Ok([cls |-> "LayoutResult", utilization_rate |-> u,
                waste_percentage |-> calculate_waste(w, values)])
       ELSE Raise("ValidationError")

UtilizationRates == { FloatLit(k, UtilSteps) : k \in 0..(UtilSteps + 1) }
WastePercentages == {NoneVal} \cup { FloatOf(10 * k) : k \in 0..(UtilSteps + 1) }

InitLayoutResult ==
    /\ EngineInit /\ GenIdle /\ DemoIdle /\ ApiIdle /\ ConcIdle
    /\ AreaIdle /\ BoxIdle /\ MeasIdle
    /\ calls = << >>
    /\ \E u \in UtilizationRates, w \in WastePercentages :
         subject = [utilization_rate |-> u, waste_percentage |-> w]

ConstructLayoutResult ==
    /\ calls = << >>
    /\ calls' = <<[op |-> "LayoutResult", arg |-> subject,
                   result |-> LayoutResult(subject.utilization_rate,
                                           subject.waste_percentage)]>>
    /\ UNCHANGED <<subject, notTypes>>

NextLayoutResult == ConstructLayoutResult

SpecLayoutResult == InitLayoutResult /\ [][NextLayoutResult]_vars

\* C16: a constructed LayoutResult has waste_percentage equal to
\* (1 - utilization_rate) * 100, whatever waste_percentage was supplied.
C16_WasteFromUtilization ==
    \A i \in 1..Len(calls) :
        calls[i].result.ok =>
            LET r == calls[i].result.val
            IN r.waste_percentage =
                 fmul(fsub(FloatOf(1), r.utilization_rate), FloatOf(100))

\* constructed with utilization 0.5 and a supplied waste of 0.0: waste is 50.0
C16_Witness ==
    /\ Len(calls) = 1
    /\ calls[1].arg.utilization_rate = FloatLit(1, 2)
    /\ calls[1].arg.waste_percentage = FloatZero
    /\ calls[1].result.ok
    /\ calls[1].result.val.waste_percentage = FloatOf(50)

-----------------------------------------------------------------------------
(* data_models.PatternPiece: construction.  The outline must have at least *)
(* OutlineMinLength points (Field min_length); then the validator          *)
(* validate_closed_outline runs and its return value becomes the outline.  *)

\* the tolerance 0.01 is 1 / ToleranceInv
ToleranceInv == 100

\* p.distance_to(q) > 0.01, on the squares
DistanceExceedsTolerance(p, q) ==
    ToleranceInv * ToleranceInv
        * ((p.x - q.x) * (p.x - q.x) + (p.y - q.y) * (p.y - q.y)) > 1

\* A validator that closes an open outline by repeating its first point.
validate_closed_outline_closing(v) ==
    IF Len(v) >= 3
    THEN IF DistanceExceedsTolerance(v[1], v[Len(v)]) THEN Append(v, v[1]) ELSE v
    ELSE v

\* PatternPiece.validate_closed_outline(cls, v): the open outline is met
\* with `pass`
validate_closed_outline(v) ==
    IF Len(v) >= 3
    THEN IF DistanceExceedsTolerance(v[1], v[Len(v)]) THEN v ELSE v
    ELSE v

\* PatternPiece(outline=..., ...), the other fields being valid
DataModelPatternPiece(pts) ==
    IF Len(pts) < OutlineMinLength THEN Raise("ValidationError")
    ELSE Ok([cls |-> "PatternPiece", outline |-> validate_closed_outline(pts)])

OutlineArguments == UNION { [1..n -> GridPoints] : n \in 0..MaxOutline }

InitPiece ==
    /\ EngineInit /\ GenIdle /\ DemoIdle /\ ApiIdle /\ ConcIdle
    /\ AreaIdle /\ BoxIdle /\ MeasIdle
    /\ calls = << >>
    /\ subject \in OutlineArguments

ConstructPiece ==
    /\ calls = << >>
    /\ calls' = <<[op |-> "PatternPiece", arg |-> subject,
                   result |-> DataModelPatternPiece(subject)]>>
    /\ UNCHANGED <<subject, notTypes>>

NextPiece == ConstructPiece

SpecPiece == InitPiece /\ [][NextPiece]_vars

\* C17: in every constructed PatternPiece the outline's last point
\* coincides with its first point, within the 0.01 tolerance.
C17_OutlineClosed ==
    \A i \in 1..Len(calls) :
        calls[i].result.ok =>
            LET o == calls[i].result.val.outline
            IN ~DistanceExceedsTolerance(o[1], o[Len(o)])

-----------------------------------------------------------------------------
(* export.ExportOptions.  A float that may be NaN is [nan, v]: every       *)
(* comparison with NaN is false.  Line weights are in hundredths of a      *)
(* millimeter.  The fields __post_init__ reads or writes are kept, with    *)
(* format and unit.                                                        *)

Num(v) == [nan |-> FALSE, v |-> v]
NaN == [nan |-> TRUE, v |-> 0]

\* a <= b, a > b for floats
NumLe(a, b) == ~a.nan /\ ~b.nan /\ a.v <= b.v
NumGt(a, b) == ~a.nan /\ ~b.nan /\ a.v > b.v

ExportFormats == {"dxf", "dwg", "plt", "pdf", "svg", "gerber", "lectra", "optitex",
                  "assyst", "obj", "fbx", "gltf", "stl"}
UnitSystems == {"mm", "cm", "m", "in", "ft"}
LayerTypes == {"outline", "internal", "grainline", "notch", "text", "seam_allowance",
               "cutting", "reference"}

\* export.CADLayer
CADLayer(name, type, color, line_weight) ==
    [cls |-> "CADLayer", name |-> name, type |-> type, color |-> color,
     line_weight |-> line_weight, visible |-> TRUE, locked |-> FALSE]
CADLayer_to_dict(self) ==
    [name |-> self.name, type |-> self.type.enum, color |-> self.color,
     line_weight |-> self.line_weight, visible |-> self.visible, locked |-> self.locked]
CADLayer_from_dict(data) ==
    IF ~HasKeys(data, {"name", "type"}) THEN Raise("KeyError")
    ELSE LET t == EnumOf(LayerTypes, data["type"])
         IN IF ~t.ok THEN t
            ELSE Ok([cls |-> "CADLayer", name |-> data["name"], type |-> t.val,
                     color |-> DictGet(data, "color", "7"),
                     line_weight |-> DictGet(data, "line_weight", 25),
                     visible |-> DictGet(data, "visible", TRUE),
                     locked |-> DictGet(data, "locked", FALSE)])

\* ExportOptions._get_default_layers()
get_default_layers ==
    <<CADLayer("OUTLINE", EnumVal("outline"), "1", 35),
      CADLayer("INTERNAL", EnumVal("internal"), "5", 18),
      CADLayer("GRAINLINE", EnumVal("grainline"), "3", 25),
      CADLayer("NOTCH", EnumVal("notch"), "2", 25),
      CADLayer("TEXT", EnumVal("text"), "7", 18),
      CADLayer("SEAM_ALLOWANCE", EnumVal("seam_allowance"), "8", 13)>>

\* A __post_init__ that puts the default layers in every ExportOptions.
ExportOptions_always_default(format, unit, scale, layers, precision) ==
    IF NumLe(scale, Num(0)) THEN Raise("ValueError")
    ELSE IF precision < 0 THEN Raise("ValueError")
    ELSE Ok([cls |-> "ExportOptions", format |-> format, unit |-> unit, scale |-> scale,
             layers |-> get_default_layers, precision |-> precision])

\* ExportOptions(format, unit, scale, layers, precision): the dataclass
\* constructor followed by __post_init__
ExportOptions(format, unit, scale, layers, precision) ==
    IF NumLe(scale, Num(0)) THEN Raise("ValueError")
    ELSE IF precision < 0 THEN Raise("ValueError")
    ELSE Ok([cls |-> "ExportOptions", format |-> format, unit |-> unit, scale |-> scale,
             layers |-> IF layers = << >> THEN get_default_layers ELSE layers,
             precision |-> precision])

\* ExportOptions(**kwargs): arguments not given take the field defaults
ExportOptions_kwargs(kwargs) ==
    ExportOptions(kwargs["format"], DictGet(kwargs, "unit", EnumVal("cm")),
                  DictGet(kwargs, "scale", Num(1)), DictGet(kwargs, "layers", << >>),
                  DictGet(kwargs, "precision", 3))

\* ExportOptions.from_dict(data)
ExportOptions_from_dict(data) ==
    IF ~HasKeys(data, {"format"}) THEN Raise("KeyError")
    ELSE LET format == EnumOf(ExportFormats, data["format"])
             unit == EnumOf(UnitSystems, DictGet(data, "unit", "cm"))
             layers == MapOk([i \in 1..Len(DictGet(data, "layers", << >>)) |->
                                CADLayer_from_dict(data["layers"][i])])
         IN IF AllOk(<<format, unit, layers>>)
            THEN ExportOptions(format.val, unit.val, DictGet(data, "scale", Num(1)),
                               layers.val, DictGet(data, "precision", 3))
            ELSE FirstRaise(<<format, unit, layers>>, NoneVal)

Scales == {NaN} \cup { Num(v) : v \in -1..MaxScale }
Precisions == -1..MaxPrecision
CutLayer == CADLayer("CUT", EnumVal("cutting"), "4", 50)
RefLayer == CADLayer("REF", EnumVal("reference"), "6", 9)
LayerLists == {<< >>, <<CutLayer>>, <<RefLayer, CutLayer>>}

\* keyword arguments of a direct construction / the dict given to from_dict
OptionArguments(op, keys, fmt, scale, layers, precision) ==
    [k \in keys \cup {"format"} |->
        CASE k = "format" -> IF op = "from_dict" THEN fmt ELSE EnumVal(fmt)
          [] k = "scale" -> scale
          [] k = "precision" -> precision
          [] k = "layers" ->
                IF op = "from_dict"
                THEN [i \in 1..Len(layers) |-> CADLayer_to_dict(layers[i])]
                ELSE layers]

InitOptions ==
    /\ EngineInit /\ GenIdle /\ DemoIdle /\ ApiIdle /\ ConcIdle
    /\ AreaIdle /\ BoxIdle /\ MeasIdle
    /\ calls = << >>
    /\ \E op \in {"ExportOptions", "from_dict"},
          keys \in SUBSET {"scale", "layers", "precision"},
          fmt \in {"dxf", "bogus"},
          scale \in Scales, layers \in LayerLists, precision \in Precisions :
        /\ op = "ExportOptions" => fmt = "dxf"
        /\ subject = [op |-> op,
                      arg |-> OptionArguments(op, keys, fmt, scale, layers, precision)]

ConstructOptions ==
    Called("ExportOptions", ExportOptions_kwargs(subject.arg))

OptionsFromDict ==
    Called("from_dict", ExportOptions_from_dict(subject.arg))

NextOptions == ConstructOptions \/ OptionsFromDict

SpecOptions == InitOptions /\ [][NextOptions]_vars

\* the layers of a constructed ExportOptions in the form they were given
LayersAsGiven(c) ==
    IF c.op = "from_dict"
    THEN [i \in 1..Len(c.result.val.layers) |-> CADLayer_to_dict(c.result.val.layers[i])]
    ELSE c.result.val.layers

DefaultLayerNames ==
    <<"OUTLINE", "INTERNAL", "GRAINLINE", "NOTCH", "TEXT", "SEAM_ALLOWANCE">>

DefaultLayerTypes ==
    <<"outline", "internal", "grainline", "notch", "text", "seam_allowance">>

\* the parts of C18 that do not concern the scale of a constructed object
OptionsRest(c) ==
    LET scale == DictGet(c.arg, "scale", Num(1))
        precision == DictGet(c.arg, "precision", 3)
        layers == DictGet(c.arg, "layers", << >>)
    IN /\ c.result.ok =>
            /\ c.result.val.precision >= 0
            /\ c.result.val.layers # << >>
            /\ IF layers = << >>
               THEN /\ Len(c.result.val.layers) = 6
                    /\ \A i \in 1..6 :
                         /\ c.result.val.layers[i].name = DefaultLayerNames[i]
                         /\ c.result.val.layers[i].type = EnumVal(DefaultLayerTypes[i])
               ELSE LayersAsGiven(c) = layers
       /\ (NumLe(scale, Num(0)) \/ precision < 0) => ~c.result.ok
       /\ ((c.op = "from_dict" => c.arg["format"] \in ExportFormats)
            /\ (NumLe(scale, Num(0)) \/ precision < 0))
              => c.result = Raise("ValueError")

-----------------------------------------------------------------------------
(* fabric.FabricProperties and fabric.PhysicalParams.  Physical parameters *)
(* are in thousandths of their unit.  The fields __post_init__ reads or    *)
(* writes are kept.                                                        *)

FabricTypes == {"cotton", "silk", "wool", "linen", "polyester", "nylon", "spandex",
                "rayon", "acrylic", "blended", "knit", "woven"}

\* PhysicalParams(...): the dataclass constructor followed by __post_init__
PhysicalParams(density, thickness, tensile_strength_warp, tensile_strength_weft, elongation_warp, elongation_weft, bending_rigidity, shear_rigidity, friction_coefficient, air_permeability, moisture_regain) ==
    IF density <= 0 THEN Raise("ValueError")
    ELSE IF thickness <= 0 THEN Raise("ValueError")
    ELSE IF ~(0 <= friction_coefficient /\ friction_coefficient <= 1000)
    THEN Raise("ValueError")
    ELSE IF elongation_warp < 0 \/ elongation_weft < 0 THEN Raise("ValueError")
    ELSE Ok([cls |-> "PhysicalParams", density |-> density, thickness |-> thickness,
             tensile_strength_warp |-> tensile_strength_warp,
             tensile_strength_weft |-> tensile_strength_weft,
             elongation_warp |-> elongation_warp, elongation_weft |-> elongation_weft,
             bending_rigidity |-> bending_rigidity, shear_rigidity |-> shear_rigidity,
             friction_coefficient |-> friction_coefficient,
             air_permeability |-> air_permeability,
             moisture_regain |-> moisture_regain])

default_cotton ==
    PhysicalParams(150000, 500, 60000, 50000, 10000, 12000, 50, 20, 300, 100000, 8500)
default_silk ==
    PhysicalParams(80000, 300, 40000, 35000, 20000, 22000, 10, 10, 200, 150000, 11000)
default_polyester ==
    PhysicalParams(120000, 400, 80000, 70000, 25000, 28000, 30, 15, 250, 80000, 400)
default_wool ==
    PhysicalParams(250000, 800, 45000, 40000, 30000, 35000, 80, 25, 400, 50000, 16000)

\* A __post_init__ without the branch for wool.
FabricProperties_no_wool(type, fabric_width, physical_params, sustainability_score, cost_per_meter) ==
    IF NumLe(fabric_width, Num(0)) THEN Raise("ValueError")
    ELSE IF ~(0 <= sustainability_score /\ sustainability_score <= 100)
    THEN Raise("ValueError")
    ELSE IF cost_per_meter < 0 THEN Raise("ValueError")
    ELSE LET params ==
                 IF ~IsNone(physical_params) THEN Ok(physical_params)
                 ELSE CASE type = EnumVal("cotton") -> default_cotton
                        [] type = EnumVal("silk") -> default_silk
                        [] type = EnumVal("polyester") -> default_polyester
                        [] OTHER -> default_cotton
         IN IF ~params.ok THEN params
            ELSE Ok([cls |-> "FabricProperties", type |-> type, width |-> fabric_width,
                     physical_params |-> params.val,
                     sustainability_score |-> sustainability_score,
                     cost_per_meter |-> cost_per_meter])

\* FabricProperties(type, width, physical_params, sustainability_score,
\* cost_per_meter): the dataclass constructor followed by __post_init__
FabricProperties(type, fabric_width, physical_params, sustainability_score, cost_per_meter) ==
    IF NumLe(fabric_width, Num(0)) THEN Raise("ValueError")
    ELSE IF ~(0 <= sustainability_score /\ sustainability_score <= 100)
    THEN Raise("ValueError")
    ELSE IF cost_per_meter < 0 THEN Raise("ValueError")
    ELSE LET params ==
                 IF ~IsNone(physical_params) THEN Ok(physical_params)
                 ELSE CASE type = EnumVal("cotton") -> default_cotton
                        [] type = EnumVal("silk") -> default_silk
                        [] type = EnumVal("polyester") -> default_polyester
                        [] type = EnumVal("wool") -> default_wool
                        [] OTHER -> default_cotton
         IN IF ~params.ok THEN params
            ELSE Ok([cls |-> "FabricProperties", type |-> type, width |-> fabric_width,
                     physical_params |-> params.val,
                     sustainability_score |-> sustainability_score,
                     cost_per_meter |-> cost_per_meter])

\* parameters a caller supplies
CustomParams == PhysicalParams(1000, 1000, 1000, 1000, 0, 0, 1000, 1000, 1000, 1000, 1000).val

Widths == {NaN} \cup { Num(v) : v \in -1..MaxWidth }
Scores == {-1, 0, 50, 100, 101}
Costs == -1..MaxCost

InitFabric ==
    /\ EngineInit /\ GenIdle /\ DemoIdle /\ ApiIdle /\ ConcIdle
    /\ AreaIdle /\ BoxIdle /\ MeasIdle
    /\ calls = << >>
    /\ \E t \in FabricTypes, w \in Widths, p \in {NoneVal, CustomParams},
          sc \in Scores, c \in Costs :
         subject = [type |-> EnumVal(t), width |-> w, physical_params |-> p,
                    sustainability_score |-> sc, cost_per_meter |-> c]

ConstructFabric ==
    /\ calls = << >>
    /\ calls' = <<[op |-> "FabricProperties", arg |-> subject,
                   result |-> FabricProperties(subject.type, subject.width,
                                               subject.physical_params,
                                               subject.sustainability_score,
                                               subject.cost_per_meter)]>>
    /\ UNCHANGED <<subject, notTypes>>

NextFabric == ConstructFabric

SpecFabric == InitFabric /\ [][NextFabric]_vars

\* the parameter set C19 names for a fabric type
DefaultsStated(t) ==
    CASE t = "cotton" -> default_cotton.val
      [] t = "silk" -> default_silk.val
      [] t = "polyester" -> default_polyester.val
      [] t = "wool" -> default_wool.val
      [] OTHER -> default_cotton.val

\* C19: a constructed FabricProperties has physical_params set: the
\* supplied ones, else the defaults of COTTON, SILK, POLYESTER or WOOL, and
\* the cotton defaults for every other type; width <= 0, a
\* sustainability_score outside [0, 100] or cost_per_meter < 0 raises
\* ValueError.
C19_PhysicalParamsSet ==
    \A i \in 1..Len(calls) :
        LET a == calls[i].arg
            r == calls[i].result
            rejected == \/ NumLe(a.width, Num(0))
                        \/ a.sustainability_score < 0 \/ a.sustainability_score > 100
                        \/ a.cost_per_meter < 0
        IN /\ rejected => r = Raise("ValueError")
           /\ ~rejected => r.ok
           /\ r.ok =>
                /\ ~IsNone(r.val.physical_params)
                /\ r.val.physical_params =
                     IF IsNone(a.physical_params) THEN DefaultsStated(a.type.enum)
                     ELSE a.physical_params
           /\ Cardinality({default_cotton, default_silk, default_polyester,
                           default_wool}) = 4

\* a wool fabric constructed without parameters got the wool defaults
C19_Witness ==
    /\ Len(calls) = 1
    /\ calls[1].arg.type = EnumVal("wool")
    /\ IsNone(calls[1].arg.physical_params)
    /\ calls[1].result.ok
    /\ calls[1].result.val.physical_params = default_wool.val
    /\ calls[1].result.val.physical_params # default_cotton.val

====
